---- MODULE Spec2Model ----
(***************************************************************************)
(* A model of the vocabulary analysis pipeline of NoveLV                   *)
(* (src/flaskr/__init__.py): chunk splitting, chunk tokenization with the  *)
(* local fallback, token filtering, frequency lookup with its cache, the   *)
(* progress entry written by a background analysis run, the progress       *)
(* stream that polls it and the results route that removes it.             *)
(*                                                                         *)
(* A text is a sequence of characters; a character is a one-character      *)
(* string.  TLA+ strings are ASCII, so each Japanese character of the      *)
(* source is written as an ASCII stand-in:                                 *)
(*     "."  U+3002 ideographic full stop     "!"  U+FF01    "?"  U+FF1F    *)
(*     "~"  U+2026 ellipsis   "}"  U+300F    "]"  U+300D                   *)
(*     ","  U+3001 ideographic comma   "*"  U+30FB   ")"  U+FF09           *)
(*     "|"  U+FF5D                                                         *)
(*     "n"  newline    " "  space    "_"  U+3000 ideographic space         *)
(*     "K"  a kanji (U+732B)    "A"  the kanji U+71B1    "i"  U+3044       *)
(*     "h"  U+306F (hiragana particle)   "T"  a katakana   "a"  a latin    *)
(*     letter   "<" and ">"  themselves                                    *)
(***************************************************************************)
EXTENDS Integers, Sequences, FiniteSets, TLC

VARIABLES
    split_text,      \* _split_text_into_chunks: argument text
    split_size,      \* _split_text_into_chunks: argument chunk_size
    split_chunks,    \* _split_text_into_chunks: returned list, NoValue before the call
    active_yomitan_operations, \* the global counter of _tokenize_single_chunk
    tok_text,        \* _tokenize_single_chunk: argument text
    tok_pc,          \* "idle", "requesting" (request in flight) or "returned"
    tok_resp,        \* what the request to /tokenize ended in
    tok_result,      \* the returned (words, success_flag)
    frequency_cache, \* the global frequency cache: None, or a dict word -> record
    freq_pc,         \* get_yomitan_frequency_data: "idle", "requesting" or "returned"
    freq_word,       \* its argument
    freq_resp,       \* what the request to /termEntries ended in (absent: none made)
    freq_result,     \* the dict it returned
    freq_missed,     \* the words some earlier lookup returned {'found': False} for
    progress_tracker,   \* progress_tracker.get(progress_id): absent, or the entry
    written,            \* every (stage, progress) the run wrote to its entry, in order
    session_has_params, \* 'analysis_params' in session
    file_text,          \* the content of the novel file
    vocabulary_set,     \* the expressions of the selected vocabulary cache
    ignored_words,      \* what load_ignored_words() returns
    run_pc,             \* where the request handler and the background thread are
    run,                \* the locals of the run
    tok_log,            \* one record per _tokenize_single_chunk call of the run
    sse_pc,             \* analysis_progress_sse: "idle", "check", "read" or "ended"
    sse_progress,       \* the entry the stream read last
    sse_seen_final,     \* the stream has read the entry that holds the results
    sse_polled_after_final, \* the stream has polled after the run stored its results
    resolvers,          \* concurrent calls of get_yomitan_frequency_data, one per thread
    an_words,           \* analyze_text_vocabulary: the tokens tokenize_japanese_text returned
    an_vocabulary,      \* its vocabulary_set
    an_ignored,         \* what load_ignored_words() returned
    an_freq,            \* what get_yomitan_frequency_data returns for each word
    an_result,          \* the dict analyze_text_vocabulary returned, once it has
    dd_list,            \* deduplicate_word_list: its word_list
    dd_out,             \* the list it returned, once it has
    rate_known,         \* known_word_count
    rate_unknown,       \* unknown_word_count
    rate_ignored,       \* ignored_word_count
    rate_out,           \* comprehension_rate and difficulty_level, once computed
    star_rank,          \* the rank given to the two star functions
    star_out,           \* what they returned, once they have
    callers,            \* concurrent calls of _tokenize_single_chunk, one per thread
    health,             \* the base_timeout check_yomitan_health chose last
    flt_words,          \* filter_japanese_tokens: its argument
    flt_out             \* what it returned, and what it returns for that, once it has

chunkVars == <<split_text, split_size, split_chunks>>
tokVars == <<active_yomitan_operations, tok_text, tok_pc, tok_resp, tok_result>>
freqVars == <<frequency_cache, freq_pc, freq_word, freq_resp, freq_result, freq_missed>>
inputVars == <<session_has_params, file_text, vocabulary_set, ignored_words>>
runVars == <<progress_tracker, written, run_pc, run, tok_log>>
sseVars == <<sse_pc, sse_progress, sse_seen_final, sse_polled_after_final>>
pipeVars == <<inputVars, runVars, sseVars>>
anVars == <<an_words, an_vocabulary, an_ignored, an_freq, an_result>>
ddVars == <<dd_list, dd_out>>
rateVars == <<rate_known, rate_unknown, rate_ignored, rate_out>>
starVars == <<star_rank, star_out>>
callVars == <<callers, health>>
fltVars == <<flt_words, flt_out>>
moreVars == <<callVars, fltVars>>
extVars == <<resolvers, anVars, ddVars, rateVars, starVars, moreVars>>
coreVars == <<chunkVars, tokVars, freqVars, pipeVars>>
NotAn == <<coreVars, resolvers, ddVars, rateVars, starVars, moreVars>>
NotDd == <<coreVars, resolvers, anVars, rateVars, starVars, moreVars>>
NotRate == <<coreVars, resolvers, anVars, ddVars, starVars, moreVars>>
NotStar == <<coreVars, resolvers, anVars, ddVars, rateVars, moreVars>>
NotFlt == <<coreVars, resolvers, anVars, ddVars, rateVars, starVars, callVars>>
tokCall == <<tok_text, tok_pc, tok_resp, tok_result>>
freqCall == <<freq_pc, freq_word, freq_resp, freq_result, freq_missed>>
NotChunk == <<tokVars, freqVars, pipeVars, extVars>>
NotTok == <<chunkVars, freqVars, pipeVars, extVars>>
NotFreq == <<chunkVars, tokVars, pipeVars, extVars>>
vars == <<split_text, split_size, split_chunks,
          active_yomitan_operations, tok_text, tok_pc, tok_resp, tok_result,
          frequency_cache, freq_pc, freq_word, freq_resp, freq_result, freq_missed,
          progress_tracker, written, session_has_params, file_text, vocabulary_set,
          ignored_words, run_pc, run, tok_log,
          sse_pc, sse_progress, sse_seen_final, sse_polled_after_final,
          resolvers, an_words, an_vocabulary, an_ignored, an_freq, an_result,
          dd_list, dd_out, rate_known, rate_unknown, rate_ignored, rate_out,
          star_rank, star_out, callers, health, flt_words, flt_out>>

NoValue == "NoValue"

\* A value that may be absent (a missing key, None) is a set with at most one
\* element: {} when absent.
Absent == {}
Some(v) == {v}
TheValue(opt) == CHOOSE v \in opt : TRUE

-----------------------------------------------------------------------------
(* Sequence helpers *)

Max(S) == CHOOSE m \in S : \A k \in S : k <= m
Min(S) == CHOOSE m \in S : \A k \in S : m <= k

\* All sequences over S of length 0..n.
SeqsUpTo(S, n) == UNION {[1..k -> S] : k \in 0..n}

\* Python slice s[lo:hi] for 0 <= lo <= hi <= len(s).
Slice(s, lo, hi) == SubSeq(s, lo + 1, hi)

\* Concatenation of a sequence of sequences, in order.
RECURSIVE Concat(_)
Concat(ss) == IF ss = <<>> THEN <<>> ELSE Head(ss) \o Concat(Tail(ss))

\* Python str.rfind(c, lo): the highest 0-based index >= lo holding c, or -1.
RFind(s, c, lo) ==
    LET hits == {p \in 0..(Len(s) - 1) : p >= lo /\ s[p + 1] = c}
    IN  IF hits = {} THEN -1 ELSE Max(hits)

-----------------------------------------------------------------------------
(* _split_text_into_chunks *)

SentenceEndings == <<".", "!", "?", "~", "}", "]">>
OtherPunctuation == <<",", "*", ")", "|">>
Whitespace == <<"n", " ", "_">>

\* The window searched for a break point: the last SearchTail characters.
SearchTail == 200

\* One "for punct in [...]" loop: the rfind position of the first character of
\* the list that occurs at or after lo, or -1 when the loop ends without a break.
FirstBreak(chunk_text, puncts, lo) ==
    LET found == {k \in 1..Len(puncts) : RFind(chunk_text, puncts[k], lo) # -1}
    IN  IF found = {} THEN -1 ELSE RFind(chunk_text, puncts[Min(found)], lo)

\* A search of the whole window instead of its last SearchTail characters.
BreakPosWholeWindow(text, start, chunk_size) ==
    LET chunk_text == Slice(text, start, start + chunk_size)
        p1 == FirstBreak(chunk_text, SentenceEndings, 0)
        p2 == FirstBreak(chunk_text, OtherPunctuation, 0)
        p3 == FirstBreak(chunk_text, Whitespace, 0)
    IN  IF p1 # -1 THEN p1 ELSE IF p2 # -1 THEN p2 ELSE p3

\* The break position of a non-final chunk, relative to start: sentence endings,
\* else other punctuation, else whitespace, else -1 (no break point).
BreakPos(text, start, chunk_size) ==
    LET end == start + chunk_size
        search_start == IF start >= end - SearchTail THEN start ELSE end - SearchTail
        chunk_text == Slice(text, start, end)
        lo == search_start - start
        p1 == FirstBreak(chunk_text, SentenceEndings, lo)
        p2 == FirstBreak(chunk_text, OtherPunctuation, lo)
        p3 == FirstBreak(chunk_text, Whitespace, lo)
    IN  IF p1 # -1 THEN p1 ELSE IF p2 # -1 THEN p2 ELSE p3

\* A break two characters past the matched one (the chunk runs one too far).
ChunkEndPastMatch(text, start, chunk_size) ==
    LET pos == BreakPos(text, start, chunk_size)
    IN  IF pos # -1 THEN start + pos + 2 ELSE start + chunk_size

\* The end of the non-final chunk that begins at start: just after the break
\* character, or start + chunk_size when there is none.
ChunkEnd(text, start, chunk_size) ==
    LET pos == BreakPos(text, start, chunk_size)
    IN  IF pos # -1 THEN start + pos + 1 ELSE start + chunk_size

\* The while loop, from start on.
RECURSIVE SplitFrom(_, _, _)
SplitFrom(text, chunk_size, start) ==
    IF ~(start < Len(text)) THEN <<>>
    ELSE IF start + chunk_size >= Len(text)
         THEN <<Slice(text, start, Len(text))>>
         ELSE LET end == ChunkEnd(text, start, chunk_size)
              IN  <<Slice(text, start, end)>> \o SplitFrom(text, chunk_size, end)

SplitTextIntoChunks(text, chunk_size) ==
    IF Len(text) <= chunk_size THEN <<text>> ELSE SplitFrom(text, chunk_size, 0)

-----------------------------------------------------------------------------
(* Character classes of the stand-in alphabet *)

\* str.strip() removes these: newline, space, ideographic space.
SpaceChars == {"n", " ", "_"}
\* U+3040-U+309F present in the model: i (U+3044), h (U+306F), s (U+3057),
\* d (U+3067), u (U+3059).
Hiragana == {"i", "h", "s", "d", "u"}
\* U+30A0-U+30FF present in the model.
Katakana == {"T"}
\* U+4E00-U+9FAF present in the model.
Kanji == {"K", "A"}
JapaneseChars == Hiragana \cup Katakana \cup Kanji

IsBlank(text) == \A k \in 1..Len(text) : text[k] \in SpaceChars

-----------------------------------------------------------------------------
(* _simple_japanese_tokenize *)

\* common_i_adjectives, the entries that can be written in the model's alphabet:
\* U+71B1 U+3044.
CommonIAdjectives == {<<"A", "i">>}

\* The adjectives that match at index i: text[i:i+len(adj)] == adj.
AdjectivesAt(text, i) ==
    {adj \in CommonIAdjectives :
        /\ i + Len(adj) <= Len(text)
        /\ Slice(text, i, i + Len(adj)) = adj}

\* An iteration that appends a matching adjective but moves on by one character.
TokenizeStepAdvancesOne(text, i) ==
    IF AdjectivesAt(text, i) # {}
    THEN [tokens |-> <<CHOOSE a \in AdjectivesAt(text, i) : TRUE>>, i |-> i + 1]
    ELSE [tokens |-> IF text[i + 1] \in SpaceChars THEN <<>> ELSE << <<text[i + 1]>> >>,
          i |-> i + 1]

\* One iteration of the while loop at index i: the tokens appended and the next i.
TokenizeStep(text, i) ==
    IF AdjectivesAt(text, i) # {}
    THEN LET adj == CHOOSE a \in AdjectivesAt(text, i) : TRUE
         IN  [tokens |-> <<adj>>, i |-> i + Len(adj)]
    ELSE [tokens |-> IF text[i + 1] \in SpaceChars THEN <<>> ELSE << <<text[i + 1]>> >>,
          i |-> i + 1]

\* The iterations of the while loop whose index lies in lo..hi-1, entered with the
\* loop index at i >= lo.  The range is halved so that the evaluation depth is
\* logarithmic in the text length; the iterations run in index order.
RECURSIVE TokenizeRange(_, _, _, _)
TokenizeRange(text, lo, hi, i) ==
    IF hi - lo = 1
    THEN IF i = lo THEN TokenizeStep(text, i) ELSE [tokens |-> <<>>, i |-> i]
    ELSE LET mid == (lo + hi) \div 2
             left == TokenizeRange(text, lo, mid, i)
             right == TokenizeRange(text, mid, hi, left.i)
         IN  [tokens |-> left.tokens \o right.tokens, i |-> right.i]

SimpleJapaneseTokenize(text) ==
    IF Len(text) = 0 THEN <<>> ELSE TokenizeRange(text, 0, Len(text), 0).tokens

-----------------------------------------------------------------------------
(* _tokenize_single_chunk *)

\* What a request to the service can end in.  A JSON body is
\*   [json |-> "invalid"]           response.json() raises
\*   [json |-> "object"]            a JSON value that is no list
\*   [json |-> "list", items |-> s] a list; an item is a dict with a content
\*                                  array, a dict without one, a token array or a
\*                                  string.
Timeout == [kind |-> "timeout"]
ConnectionError == [kind |-> "connection_error"]
RequestException == [kind |-> "request_exception"]
Http(status, body) == [kind |-> "http", status |-> status, body |-> body]
InvalidJson == [json |-> "invalid"]
JsonObject == [json |-> "object"]
JsonList(items) == [json |-> "list", items |-> items]
ContentItem(content) == [type |-> "dict", has_content |-> TRUE, content |-> content]
PlainDictItem == [type |-> "dict", has_content |-> FALSE]
ArrayItem(elems) == [type |-> "array", elems |-> elems]
StrItem(str) == [type |-> "str", str |-> str]
TextOption(t) == [isdict |-> TRUE, text |-> t]

\* ''.join([option.get('text', '') for option in segment if isinstance(option, dict)])
CompleteWord(segment) ==
    LET dicts == SelectSeq(segment, LAMBDA o : o.isdict)
    IN  Concat([k \in 1..Len(dicts) |-> dicts[k].text])

\* The words one item of the primary response shape contributes.
ItemWords(item) ==
    IF item.type = "dict" /\ item.has_content
    THEN LET complete == [k \in 1..Len(item.content) |-> CompleteWord(item.content[k])]
         IN  SelectSeq(complete, LAMBDA w : w # <<>>)
    ELSE <<>>

\* The word one element of the "direct format" contributes.
DirectWords(token) ==
    IF token.type = "array" /\ Len(token.elems) > 0 THEN <<token.elems[1]>>
    ELSE IF token.type = "str" THEN <<token.str>>
    ELSE <<>>

\* The words extracted from a parsed 200 response.
ExtractWords(result) ==
    IF result.json = "list" /\ Len(result.items) > 0
    THEN Concat([k \in 1..Len(result.items) |-> ItemWords(result.items[k])])
    ELSE IF result.json = "list"
    THEN Concat([k \in 1..Len(result.items) |-> DirectWords(result.items[k])])
    ELSE <<>>

\* An except branch that reports failure instead of falling back.
TokenizeOnExceptionFails(text) == [words |-> <<>>, success |-> FALSE]

\* The except branches: the fallback's tokens, success flag True.
TokenizeOnException(text) ==
    [words |-> SimpleJapaneseTokenize(text), success |-> TRUE]

\* The (words, success_flag) returned for a request that ended in resp.
TokenizeSingleChunk(text, resp) ==
    IF resp.kind # "http" THEN TokenizeOnException(text)
    ELSE IF resp.status = 200
         THEN IF resp.body.json = "invalid" THEN TokenizeOnException(text)
              ELSE [words |-> ExtractWords(resp.body), success |-> TRUE]
         ELSE [words |-> <<>>, success |-> FALSE]

\* A well-formed answer of the primary shape that carries the given tokens, each
\* token as one segment whose parsing options are the token's characters.
PrimaryBody(tokens) ==
    JsonList(<<ContentItem(
        [k \in 1..Len(tokens) |->
            [j \in 1..Len(tokens[k]) |-> TextOption(<<tokens[k][j]>>)]])>>)

\* The tokens of a segmentation that keeps every maximal run of non-space
\* characters together: what the service answers in the model when it works.
\* Runs(text, lo, hi) is the runs of text[lo..hi] (1-based) with whether its
\* first and last characters belong to a run; halves are joined at the middle.
RECURSIVE Runs(_, _, _)
Runs(text, lo, hi) ==
    IF lo = hi
    THEN IF text[lo] \in SpaceChars
         THEN [toks |-> <<>>, l |-> FALSE, r |-> FALSE]
         ELSE [toks |-> << <<text[lo]>> >>, l |-> TRUE, r |-> TRUE]
    ELSE LET mid == (lo + hi) \div 2
             L == Runs(text, lo, mid)
             R == Runs(text, mid + 1, hi)
         IN  [toks |-> IF L.r /\ R.l
                       THEN SubSeq(L.toks, 1, Len(L.toks) - 1)
                            \o <<L.toks[Len(L.toks)] \o Head(R.toks)>>
                            \o Tail(R.toks)
                       ELSE L.toks \o R.toks,
              l |-> L.l, r |-> R.r]

ServiceTokens(text) == IF Len(text) = 0 THEN <<>> ELSE Runs(text, 1, Len(text)).toks

\* The outcomes of the request for one chunk that the model draws from.
TokenizeOutcomes(text) ==
    { Timeout, ConnectionError, RequestException,
      Http(503, NoValue),
      Http(200, InvalidJson),
      Http(200, JsonObject),
      Http(200, JsonList(<<>>)),
      Http(200, PrimaryBody(ServiceTokens(text))),
      Http(200, JsonList(<<ArrayItem(<<text>>), StrItem(text)>>)) }

-----------------------------------------------------------------------------
(* filter_japanese_tokens *)

\* The characters of the symbol class of lines 1034 and 1038 present in the
\* model: the listed punctuation, whitespace, and the ranges U+2000-U+206F,
\* U+3000-U+303F and U+FF00-U+FFEF.
SymbolChars == {".", "!", "?", "~", "}", "]", ",", "*", ")", "|", "n", " ", "_"}
\* The single-character particles of line 1043 present in the model.
ParticleChars == {"h", "s", "d", "u"}
\* important_single, the members present in the model.
ImportantSingle == {"i", "s", "u"}
\* allowed_short, the members that can be written in the model: U+3067 U+3059.
AllowedShort == {<<"d", "u">>}
\* The conjugation endings of line 1067 present in the model.
ConjugationChars == {"u"}

CountIn(word, class) == Cardinality({k \in 1..Len(word) : word[k] \in class})
AllIn(word, class) == \A k \in 1..Len(word) : word[k] \in class

\* Whether the loop body appends the word: none of the `continue` tests holds
\* and the final test does.
KeepToken(word) ==
    /\ ~(Len(word) = 0 \/ IsBlank(word))
    /\ ~AllIn(word, SymbolChars)
    /\ ~(10 * CountIn(word, SymbolChars) >= 7 * Len(word))
    /\ ~(Len(word) = 1 /\ word[1] \in ParticleChars)
    /\ ~(Len(word) = 1 /\ word[1] \in Hiragana /\ word[1] \notin ImportantSingle)
    /\ ~(Len(word) = 1 /\ word[1] \in Katakana)
    /\ ~(Len(word) <= 2 /\ AllIn(word, Hiragana) /\ word \notin AllowedShort)
    /\ ~(Len(word) \in {1, 2} /\ AllIn(word, ConjugationChars))
    /\ (CountIn(word, JapaneseChars) > 0 \/ ~AllIn(word, JapaneseChars))

\* The kept tokens in reverse order.
FilterKeptReversed(words) ==
    LET kept == SelectSeq(words, KeepToken)
    IN  [k \in 1..Len(kept) |-> kept[Len(kept) + 1 - k]]

FilterJapaneseTokens(words) == SelectSeq(words, KeepToken)

-----------------------------------------------------------------------------
(* tokenize_japanese_text: text.strip() and the removal of HTML tags *)

\* text.strip()
Strip(text) ==
    LET keep == {k \in 1..Len(text) : text[k] \notin SpaceChars}
    IN  IF keep = {} THEN <<>> ELSE SubSeq(text, Min(keep), Max(keep))

\* re.sub(r'<[^>]+>', '', text) from 1-based position p on: the text up to the
\* next "<" is kept; a "<" followed by at least one character other than ">"
\* and then a ">" is removed up to the first such ">"; any other "<" is kept.
RECURSIVE RemoveTagsFrom(_, _)
RemoveTagsFrom(text, p) ==
    LET opens == {k \in p..Len(text) : text[k] = "<"}
    IN  IF opens = {} THEN SubSeq(text, p, Len(text))
        ELSE LET a == Min(opens)
                 closes == {k \in (a + 2)..Len(text) : text[k] = ">"}
             IN  IF a + 1 <= Len(text) /\ text[a + 1] # ">" /\ closes # {}
                 THEN SubSeq(text, p, a - 1) \o RemoveTagsFrom(text, Min(closes) + 1)
                 ELSE SubSeq(text, p, a) \o RemoveTagsFrom(text, a + 1)

RemoveTags(text) == RemoveTagsFrom(text, 1)

-----------------------------------------------------------------------------
(* analyze_text_vocabulary: counting, classification, deduplication, order *)

\* The keys of Counter(words) in insertion order: each distinct word at its
\* first occurrence.
FirstOccurrences(words) ==
    {k \in 1..Len(words) : \A j \in 1..(k - 1) : words[j] # words[k]}

RECURSIVE InIndexOrder(_, _)
InIndexOrder(words, idx) ==
    IF idx = {} THEN <<>>
    ELSE <<words[Min(idx)]>> \o InIndexOrder(words, idx \ {Min(idx)})

UniqueWords(words) == InIndexOrder(words, FirstOccurrences(words))

\* Counter(words)[word]
\* Every word counted once, however often it occurs.
WordCountOnce(words, word) == 1

WordCount(words, word) == Cardinality({k \in 1..Len(words) : words[k] = word})

\* The word_entry built for one unique word (lines 1179-1191); rank and source
\* are absent when the lookup did not find the word.
WordEntry(word, count, freq_data, vocabulary, ignored) ==
    [word |-> word,
     count |-> count,
     has_frequency |-> freq_data.found,
     rank |-> IF freq_data.found THEN Some(freq_data.rank) ELSE Absent,
     source |-> IF freq_data.found THEN Some(freq_data.source) ELSE Absent,
     in_vocabulary |-> word \in vocabulary,
     is_ignored |-> word \in ignored,
     original_word |-> word]

\* The list an entry is appended to, with the vocabulary tested first.
CategoryKnownFirst(entry) ==
    IF entry.in_vocabulary THEN "known"
    ELSE IF entry.is_ignored THEN "ignored"
    ELSE "unknown"

\* The list an entry is appended to (lines 1196-1201).
Category(entry) ==
    IF entry.is_ignored THEN "ignored"
    ELSE IF entry.in_vocabulary THEN "known"
    ELSE "unknown"

\* deduplicate_word_list: one entry per display word, at the place of its first
\* occurrence, with the counts of all entries of that word added up.
RECURSIVE SumCounts(_)
SumCounts(entries) ==
    IF entries = <<>> THEN 0 ELSE Head(entries).count + SumCounts(Tail(entries))

\* The entry for a word with several entries: the copy of the first with the
\* counts added up and the original words of all of them listed.
Merged(first, same) ==
    IF same = <<>> THEN first
    ELSE [first EXCEPT !.count = first.count + SumCounts(same)]
         @@ [original_words |->
                <<first.original_word>> \o [k \in 1..Len(same) |-> same[k].original_word]]

\* deduplicate_word_list that keeps the first entry of a word and drops the
\* others with their counts.
RECURSIVE DeduplicateWithoutMerging(_)
DeduplicateWithoutMerging(word_list) ==
    IF word_list = <<>> THEN <<>>
    ELSE LET first == Head(word_list)
             rest == SelectSeq(Tail(word_list), LAMBDA e : e.word # first.word)
         IN  <<first>> \o DeduplicateWithoutMerging(rest)

RECURSIVE DeduplicateWordList(_)
DeduplicateWordList(word_list) ==
    IF word_list = <<>> THEN <<>>
    ELSE LET first == Head(word_list)
             same == SelectSeq(Tail(word_list), LAMBDA e : e.word = first.word)
             rest == SelectSeq(Tail(word_list), LAMBDA e : e.word # first.word)
         IN  <<Merged(first, same)>> \o DeduplicateWordList(rest)

\* list.sort(key=lambda x: x['count'], reverse=True): by descending count, the
\* entries of equal count in their previous order.
\* The insertion step of a sort that puts an entry before those of equal count.
RECURSIVE InsertBeforeEqual(_, _)
InsertBeforeEqual(sorted, entry) ==
    IF sorted = <<>> THEN <<entry>>
    ELSE IF Head(sorted).count > entry.count
         THEN <<Head(sorted)>> \o InsertBeforeEqual(Tail(sorted), entry)
         ELSE <<entry>> \o sorted

RECURSIVE InsertByCount(_, _)
InsertByCount(sorted, entry) ==
    IF sorted = <<>> THEN <<entry>>
    ELSE IF Head(sorted).count >= entry.count
         THEN <<Head(sorted)>> \o InsertByCount(Tail(sorted), entry)
         ELSE <<entry>> \o sorted

RECURSIVE SortByCount(_)
SortByCount(entries) ==
    IF entries = <<>> THEN <<>>
    ELSE InsertByCount(SortByCount(SubSeq(entries, 1, Len(entries) - 1)),
                       entries[Len(entries)])

-----------------------------------------------------------------------------
(* get_yomitan_frequency_data and the frequency cache *)

\* The global cache: None, or a dict.  A dict is a function on its keys.
EmptyDict == [w \in {} |-> NoValue]
CacheNone == [none |-> TRUE, items |-> EmptyDict]

\* A body of /termEntries with a 'dictionaryEntries' list, and one without.
\* An entry is [headwords |-> list, frequencies |-> list]; a headword is
\* [term |-> optional word, reading |-> optional word]; a frequency item is a
\* dict [isdict |-> TRUE, frequency |-> optional rank, dictionary |-> optional
\* name] or something that is no dict.
EntriesBody(entries) == [json |-> "object", has_entries |-> TRUE, entries |-> entries]
NoEntriesBody == [json |-> "object", has_entries |-> FALSE]
Headword(term, reading) == [term |-> term, reading |-> reading]
FrequencyItem(rank, dictionary) ==
    [isdict |-> TRUE, frequency |-> rank, dictionary |-> dictionary]
NotADictItem == [isdict |-> FALSE]

\* exact_match_found with the test on the headwords left out: every entry that
\* has headwords qualifies.
AnyHeadwordMatch(entry, word) == Len(entry.headwords) > 0

\* exact_match_found: some headword's term or reading equals the word.
ExactMatchFound(entry, word) ==
    /\ Len(entry.headwords) > 0
    /\ \E k \in 1..Len(entry.headwords) :
          \/ word \in entry.headwords[k].term
          \/ word \in entry.headwords[k].reading

\* The frequency items the loops visit, in order: those of the entries with an
\* exact match, each a dict with a 'frequency' key.
RECURSIVE VisitedItems(_, _)
VisitedItems(entries, word) ==
    IF entries = <<>> THEN <<>>
    ELSE LET entry == Head(entries)
             items == IF ExactMatchFound(entry, word)
                      THEN SelectSeq(entry.frequencies,
                                     LAMBDA it : it.isdict /\ it.frequency # Absent)
                      ELSE <<>>
         IN  items \o VisitedItems(Tail(entries), word)

\* The running best (rank, source) over the visited items: a strictly lower rank
\* replaces the best so far.
RECURSIVE BestOver(_, _)
BestOver(items, best) ==
    IF items = <<>> THEN best
    ELSE LET rank == TheValue(Head(items).frequency)
             source == IF Head(items).dictionary = Absent THEN "Unknown"
                       ELSE TheValue(Head(items).dictionary)
         IN  IF best = Absent \/ rank < TheValue(best).rank
             THEN BestOver(Tail(items), Some([rank |-> rank, source |-> source]))
             ELSE BestOver(Tail(items), best)

NotFound == [found |-> FALSE]
Found(rank, source) == [rank |-> rank, source |-> source, found |-> TRUE]

\* `frequency_cache and word in frequency_cache`
CacheHit(cache, word) ==
    /\ ~cache.none
    /\ DOMAIN cache.items # {}
    /\ word \in DOMAIN cache.items

\* The dict returned on a cache hit.
CachedResult(cache, word) ==
    Found(cache.items[word].rank, cache.items[word].source)

\* The dict returned when a failed request is taken for an answer with a rank.
LookupResultFoundOnFailure(word, resp) ==
    IF resp.kind # "http" THEN Found(0, "Unknown")
    ELSE IF resp.status # 200 THEN Found(0, "Unknown")
    ELSE IF resp.body.json = "invalid" THEN Found(0, "Unknown")
    ELSE IF ~resp.body.has_entries THEN Found(0, "Unknown")
    ELSE LET best == BestOver(VisitedItems(resp.body.entries, word), Absent)
         IN  IF best # Absent
             THEN Found(TheValue(best).rank, TheValue(best).source)
             ELSE NotFound

\* The dict returned when the request ended in resp.
LookupResult(word, resp) ==
    IF resp.kind # "http" THEN NotFound
    ELSE IF resp.status # 200 THEN NotFound
    ELSE IF resp.body.json = "invalid" THEN NotFound
    ELSE IF ~resp.body.has_entries THEN NotFound
    ELSE LET best == BestOver(VisitedItems(resp.body.entries, word), Absent)
         IN  IF best # Absent
             THEN Found(TheValue(best).rank, TheValue(best).source)
             ELSE NotFound

\* A cache that stores whatever was returned, not-found included.
CacheAfterStoresAll(cache, word, result) ==
    [none |-> FALSE, items |-> (word :> result) @@ cache.items]

\* The cache after the lookup: the record is stored under the word when the
\* lookup found a rank; nothing is written otherwise.
CacheAfter(cache, word, result) ==
    IF result.found
    THEN [none |-> FALSE, items |-> (word :> result) @@ cache.items]
    ELSE cache

-----------------------------------------------------------------------------
(* State machines.  Each specification starts the components it does not
   exercise idle and leaves them unchanged. *)

MaxSplitLen == 4
MaxSplitSize == 3
SplitAlphabet == {"K", ".", "]", ",", " "}

ChunkIdle ==
    /\ split_text = <<>>
    /\ split_size = 0
    /\ split_chunks = NoValue

ChunkInit ==
    /\ split_text \in SeqsUpTo(SplitAlphabet, MaxSplitLen)
    /\ split_size \in 1..MaxSplitSize
    /\ split_chunks = NoValue

SplitCall ==
    /\ split_chunks = NoValue
    /\ split_chunks' = SplitTextIntoChunks(split_text, split_size)
    /\ UNCHANGED <<split_text, split_size>>
    /\ UNCHANGED NotChunk

MaxTokLen == 3
TokAlphabet == {"K", "A", "i", " "}

TokIdle ==
    /\ active_yomitan_operations = 0
    /\ tok_text = <<>>
    /\ tok_pc = "idle"
    /\ tok_resp = NoValue
    /\ tok_result = NoValue

TokInit ==
    /\ active_yomitan_operations = 0
    /\ tok_text \in SeqsUpTo(TokAlphabet, MaxTokLen)
    /\ tok_pc = "idle"
    /\ tok_resp = NoValue
    /\ tok_result = NoValue

\* Entry of _tokenize_single_chunk: the counter is incremented and the request
\* is sent.
TokRequest ==
    /\ tok_pc = "idle"
    /\ active_yomitan_operations' = active_yomitan_operations + 1
    /\ tok_pc' = "requesting"
    /\ UNCHANGED <<tok_text, tok_resp, tok_result>>
    /\ UNCHANGED NotTok

\* The request ends; the result is computed and the finally clause decrements
\* the counter.
TokReturn ==
    /\ tok_pc = "requesting"
    /\ \E resp \in TokenizeOutcomes(tok_text) :
          /\ tok_resp' = resp
          /\ tok_result' = TokenizeSingleChunk(tok_text, resp)
    /\ active_yomitan_operations' =
          (IF active_yomitan_operations - 1 > 0 THEN active_yomitan_operations - 1 ELSE 0)
    /\ tok_pc' = "returned"
    /\ UNCHANGED tok_text
    /\ UNCHANGED NotTok


\* The words looked up, U+732B and a two-character word that begins with it.
FreqWords == {<<"K">>, <<"K", "A">>}
MaxEntries == 2

HeadwordLists ==
    { <<>>,
      <<Headword(Some(<<"K">>), Absent)>>,
      <<Headword(Some(<<"K", "A">>), Absent)>>,
      <<Headword(Some(<<"K", "A">>), Some(<<"K">>))>>,
      <<Headword(Absent, Absent), Headword(Some(<<"K">>), Some(<<"K", "A">>))>> }

FrequencyLists ==
    { <<>>,
      <<FrequencyItem(Some(500), Some("X"))>>,
      <<FrequencyItem(Some(10), Some("Y"))>>,
      <<FrequencyItem(Some(500), Some("Y")), FrequencyItem(Some(500), Some("X"))>>,
      <<NotADictItem, FrequencyItem(Absent, Some("X")), FrequencyItem(Some(10), Absent)>> }

DictionaryEntries ==
    {[headwords |-> h, frequencies |-> f] : h \in HeadwordLists, f \in FrequencyLists}

\* The outcomes of the request to /termEntries that the model draws from.
FrequencyOutcomes ==
    { Timeout, ConnectionError, Http(503, NoValue), Http(200, InvalidJson),
      Http(200, NoEntriesBody) }
    \cup {Http(200, EntriesBody(es)) : es \in SeqsUpTo(DictionaryEntries, MaxEntries)}

FreqIdle ==
    /\ frequency_cache = CacheNone
    /\ freq_pc = "idle"
    /\ freq_word = <<>>
    /\ freq_resp = Absent
    /\ freq_result = NotFound
    /\ freq_missed = {}

\* load_frequency_data: an empty dict replaces None.
LoadFrequencyData ==
    /\ freq_pc # "requesting"
    /\ frequency_cache.none
    /\ frequency_cache' = [none |-> FALSE, items |-> EmptyDict]
    /\ UNCHANGED <<freq_pc, freq_word, freq_resp, freq_result, freq_missed>>
    /\ UNCHANGED NotFreq

\* A call for a cached word: the cached record is returned, no request is made.
FreqCallCached ==
    /\ freq_pc # "requesting"
    /\ \E word \in FreqWords :
          /\ CacheHit(frequency_cache, word)
          /\ freq_word' = word
          /\ freq_result' = CachedResult(frequency_cache, word)
    /\ freq_pc' = "returned"
    /\ freq_resp' = Absent
    /\ UNCHANGED <<frequency_cache, freq_missed>>
    /\ UNCHANGED NotFreq

\* A call for a word that is not cached: the request is sent.
FreqCallRequest ==
    /\ freq_pc # "requesting"
    /\ \E word \in FreqWords :
          /\ ~CacheHit(frequency_cache, word)
          /\ freq_word' = word
    /\ freq_pc' = "requesting"
    /\ freq_resp' = Absent
    /\ freq_result' = NotFound
    /\ UNCHANGED <<frequency_cache, freq_missed>>
    /\ UNCHANGED NotFreq

\* The request ends: the result is computed, cached when found, and returned.
FreqReturn ==
    /\ freq_pc = "requesting"
    /\ \E resp \in FrequencyOutcomes :
          LET result == LookupResult(freq_word, resp)
          IN  /\ freq_resp' = Some(resp)
              /\ freq_result' = result
              /\ frequency_cache' = CacheAfter(frequency_cache, freq_word, result)
              /\ freq_missed' = IF result.found THEN freq_missed
                                ELSE freq_missed \cup {freq_word}
    /\ freq_pc' = "returned"
    /\ UNCHANGED freq_word
    /\ UNCHANGED NotFreq

-----------------------------------------------------------------------------
(* The analysis run: execute_analysis, run_analysis, analyze_text_vocabulary,
   tokenize_japanese_text, tokenize_with_yomitan_api.  Each action is the code
   up to and including one write of the progress entry or one request. *)

YOMITAN_CHUNK_SIZE == 300
LongExtra == 2

\* A text longer than one chunk: words of two kanji separated by spaces.
LongText == [k \in 1..(YOMITAN_CHUNK_SIZE + LongExtra) |-> IF k % 3 = 2 THEN " " ELSE "K"]

\* The file contents the model draws from: empty, blank, one word, a word the
\* filter drops, a tag only, a tag and two words, an adjective, a long text.
FileTexts ==
    { <<>>, <<" ">>, <<"K">>, <<"h">>, <<"<", "K", ">">>,
      <<"<", "a", ">", "K", " ", "a">>, <<"A", "i", " ", "K">>, LongText }

Entry(stage, progress) == [stage |-> stage, progress |-> progress, results |-> FALSE]
EntryWithResults(stage, progress) ==
    [stage |-> stage, progress |-> progress, results |-> TRUE]

NoLocals ==
    [inputs |-> "none", text |-> <<>>, chunks |-> <<>>, i |-> 0,
     all_words |-> <<>>, success |-> TRUE, tokens_empty |-> FALSE,
     words |-> <<>>, unique |-> <<>>, processed |-> 0, entries |-> <<>>,
     freq_log |-> <<>>,
     analysis |-> Absent, saved |-> FALSE]

PipeIdle ==
    /\ progress_tracker = Absent
    /\ written = <<>>
    /\ session_has_params = FALSE
    /\ file_text = <<>>
    /\ vocabulary_set = {}
    /\ ignored_words = {}
    /\ run_pc = "idle"
    /\ run = NoLocals
    /\ tok_log = <<>>
    /\ sse_pc = "idle"
    /\ sse_progress = Absent
    /\ sse_seen_final = FALSE
    /\ sse_polled_after_final = FALSE

PipeInit ==
    /\ progress_tracker = Absent
    /\ written = <<>>
    /\ session_has_params \in BOOLEAN
    /\ file_text \in FileTexts
    /\ vocabulary_set = {<<"K">>}
    /\ ignored_words = {<<"a">>}
    /\ run_pc = "idle"
    /\ run = NoLocals
    /\ tok_log = <<>>
    /\ sse_pc = "idle"
    /\ sse_progress = Absent
    /\ sse_seen_final = FALSE
    /\ sse_polled_after_final = FALSE

\* progress_tracker[progress_id] = {...} by the run.
WriteProgress(entry) ==
    /\ progress_tracker' = Some(entry)
    /\ written' = Append(written, [stage |-> entry.stage, progress |-> entry.progress])

RunFrame == UNCHANGED <<chunkVars, tokVars, freqVars, inputVars, sseVars, extVars>>
RunFrameButCache == UNCHANGED <<chunkVars, tokVars, freqCall, inputVars, sseVars, extVars>>

\* execute_analysis without analysis parameters in the session: the error
\* entry and a 400 answer; no thread is started.
ExecuteNoParams ==
    /\ run_pc = "idle"
    /\ ~session_has_params
    /\ WriteProgress(Entry("error", 0))
    /\ run_pc' = "rejected"
    /\ UNCHANGED <<run, tok_log>>
    /\ RunFrame

\* execute_analysis: the entry is initialised and the thread is started.
ExecuteAnalysis ==
    /\ run_pc = "idle"
    /\ session_has_params
    /\ WriteProgress(Entry("starting", 0))
    /\ run_pc' = "run_start"
    /\ UNCHANGED <<run, tok_log>>
    /\ RunFrame

\* run_analysis, first write.
RunStart ==
    /\ run_pc = "run_start"
    /\ WriteProgress(Entry("starting", 5))
    /\ run_pc' = "load_inputs"
    /\ UNCHANGED <<run, tok_log>>
    /\ RunFrame

\* The except clause of run_analysis lets the exception escape the thread.
OnRunExceptionEscapes ==
    /\ run_pc' = "crashed"
    /\ UNCHANGED <<progress_tracker, written>>

\* The except clause of run_analysis: the error entry, and the thread ends.
OnRunException ==
    /\ WriteProgress(Entry("error", 0))
    /\ run_pc' = "done"

\* run_analysis reads the novel file, finds the vocabulary cache and loads it.
\* A file that cannot be read or parsed raises; a cache that is not listed
\* writes the error entry and returns.
RunLoadInputs ==
    /\ run_pc = "load_inputs"
    /\ \E outcome \in {"ok", "file_error", "cache_not_found", "cache_error"} :
          /\ run' = [run EXCEPT !.inputs = outcome]
          /\ IF outcome = "ok"
             THEN /\ run_pc' = "analyze_start"
                  /\ UNCHANGED <<progress_tracker, written>>
             ELSE IF outcome = "cache_not_found"
             THEN /\ WriteProgress(Entry("error", 0))
                  /\ run_pc' = "done"
             ELSE OnRunException
    /\ UNCHANGED tok_log
    /\ RunFrame

\* analyze_text_vocabulary, first write; load_ignored_words().
AnalyzeStart ==
    /\ run_pc = "analyze_start"
    /\ WriteProgress(Entry("starting", 0))
    /\ run_pc' = "tokenize_text"
    /\ UNCHANGED <<run, tok_log>>
    /\ RunFrame

\* tokenize_japanese_text up to the call of tokenize_with_yomitan_api: a blank
\* text returns [] at once; otherwise 'preprocessing' is written and the text
\* is stripped and freed of tags.
TokenizeText ==
    /\ run_pc = "tokenize_text"
    /\ IF Len(file_text) = 0 \/ IsBlank(file_text)
       THEN /\ run' = [run EXCEPT !.words = <<>>]
            /\ run_pc' = "analyzing"
            /\ UNCHANGED <<progress_tracker, written>>
       ELSE /\ WriteProgress(Entry("preprocessing", 5))
            /\ run' = [run EXCEPT !.text = RemoveTags(Strip(file_text))]
            /\ run_pc' = "yomitan"
    /\ UNCHANGED tok_log
    /\ RunFrame

\* tokenize_with_yomitan_api up to its first request: a blank text returns
\* ([], True); a text of at most one chunk writes 'tokenizing'; a longer text is
\* split and 'chunking' is written.
YomitanEnter ==
    /\ run_pc = "yomitan"
    /\ IF Len(run.text) = 0 \/ IsBlank(run.text)
       THEN /\ run' = [run EXCEPT !.all_words = <<>>, !.success = TRUE]
            /\ run_pc' = "after_yomitan"
            /\ UNCHANGED <<progress_tracker, written>>
       ELSE IF Len(run.text) <= YOMITAN_CHUNK_SIZE
       THEN /\ WriteProgress(Entry("tokenizing", 50))
            /\ run_pc' = "single_chunk"
            /\ UNCHANGED run
       ELSE /\ run' = [run EXCEPT
                          !.chunks = SplitTextIntoChunks(run.text, YOMITAN_CHUNK_SIZE),
                          !.i = 1]
            /\ WriteProgress(Entry("chunking", 10))
            /\ run_pc' = "chunk_begin"
    /\ UNCHANGED tok_log
    /\ RunFrame

Unreachable(resp) == resp.kind \in {"timeout", "connection_error"}

\* The counter after one whole call of _tokenize_single_chunk.
CounterAfterCall(n) == IF (n + 1) - 1 > 0 THEN (n + 1) - 1 ELSE 0

TokFrame ==
    /\ active_yomitan_operations' = CounterAfterCall(active_yomitan_operations)
    /\ UNCHANGED <<chunkVars, tokCall, freqVars, inputVars, sseVars, extVars>>

\* The single request of a text of at most one chunk.
SingleChunk ==
    /\ run_pc = "single_chunk"
    /\ \E resp \in TokenizeOutcomes(run.text) :
          LET result == TokenizeSingleChunk(run.text, resp)
          IN  /\ run' = [run EXCEPT !.all_words = result.words,
                                    !.success = result.success]
              /\ tok_log' = Append(tok_log, [chunk |-> run.text,
                                             unreachable |-> Unreachable(resp),
                                             result |-> result])
    /\ run_pc' = "after_yomitan"
    /\ UNCHANGED <<progress_tracker, written>>
    /\ TokFrame

\* The tokens of a chunk put in front of the tokens gathered so far.
ExtendedAtFront(all_words, chunk_words) == chunk_words \o all_words

\* all_words.extend(chunk_words)
Extended(all_words, chunk_words) == all_words \o chunk_words

\* 'Processing chunk i of n': 10 + (i - 1) / n * 80, rounded down.
ChunkBegin ==
    /\ run_pc = "chunk_begin"
    /\ WriteProgress(Entry("tokenizing",
                           10 + ((run.i - 1) * 80) \div Len(run.chunks)))
    /\ run_pc' = "chunk_call"
    /\ UNCHANGED <<run, tok_log>>
    /\ RunFrame

\* The request of chunk i.  A failed chunk is skipped without a write; the
\* tokens of any other are appended and 'Completed chunk i' is written with
\* 10 + i / n * 80, rounded down.
ChunkCall ==
    /\ run_pc = "chunk_call"
    /\ \E resp \in TokenizeOutcomes(run.chunks[run.i]) :
          LET result == TokenizeSingleChunk(run.chunks[run.i], resp)
          IN  /\ tok_log' = Append(tok_log, [chunk |-> run.chunks[run.i],
                                             unreachable |-> Unreachable(resp),
                                             result |-> result])
              /\ IF ~result.success
                 THEN /\ run' = [run EXCEPT !.i = run.i + 1]
                      /\ UNCHANGED <<progress_tracker, written>>
                 ELSE /\ run' = [run EXCEPT !.all_words = Extended(run.all_words, result.words),
                                            !.i = run.i + 1]
                      /\ WriteProgress(Entry("tokenizing",
                                             10 + (run.i * 80) \div Len(run.chunks)))
    /\ run_pc' = IF run.i = Len(run.chunks) THEN "chunks_done" ELSE "chunk_begin"
    /\ TokFrame

\* After the last chunk: total_success, and 'complete' with progress 90.
ChunksDone ==
    /\ run_pc = "chunks_done"
    /\ run' = [run EXCEPT !.success = (Len(run.all_words) > 0)]
    /\ WriteProgress(Entry("complete", 90))
    /\ run_pc' = "after_yomitan"
    /\ UNCHANGED tok_log
    /\ RunFrame

\* tokenize_japanese_text after tokenize_with_yomitan_api returned: 'filtering'
\* when there are tokens, else 'error' and the empty list.
AfterYomitan ==
    /\ run_pc = "after_yomitan"
    /\ IF run.success /\ Len(run.all_words) > 0
       THEN /\ WriteProgress(Entry("filtering", 95))
            /\ run_pc' = "filter"
            /\ UNCHANGED run
       ELSE /\ WriteProgress(Entry("error", 0))
            /\ run' = [run EXCEPT !.words = <<>>, !.tokens_empty = TRUE]
            /\ run_pc' = "analyzing"
    /\ UNCHANGED tok_log
    /\ RunFrame

\* filter_japanese_tokens, then 'complete' with progress 100.
FilterTokens ==
    /\ run_pc = "filter"
    /\ run' = [run EXCEPT !.words = FilterJapaneseTokens(run.all_words)]
    /\ WriteProgress(Entry("complete", 100))
    /\ run_pc' = "analyzing"
    /\ UNCHANGED tok_log
    /\ RunFrame

\* analyze_text_vocabulary after tokenize_japanese_text returned: 'analyzing'
\* and the word counts.
Analyzing ==
    /\ run_pc = "analyzing"
    /\ WriteProgress(Entry("analyzing", 40))
    /\ run' = [run EXCEPT !.unique = UniqueWords(run.words), !.processed = 0]
    /\ run_pc' = "lookup"
    /\ UNCHANGED tok_log
    /\ RunFrame

\* The head of the loop over the unique words: 'vocabulary_lookup' with
\* 40 + processed / total * 50, rounded down; after the last word the loop ends.
LookupBegin ==
    /\ run_pc = "lookup"
    /\ IF run.processed < Len(run.unique)
       THEN /\ run' = [run EXCEPT !.processed = run.processed + 1]
            /\ WriteProgress(Entry("vocabulary_lookup",
                                   40 + ((run.processed + 1) * 50) \div Len(run.unique)))
            /\ run_pc' = "lookup_call"
       ELSE /\ run_pc' = "summarize"
            /\ UNCHANGED <<run, progress_tracker, written>>
    /\ UNCHANGED tok_log
    /\ RunFrame

\* The answers to the request for one word that the run draws from.
RunFrequencyOutcomes(word) ==
    { Timeout, Http(503, NoValue), Http(200, InvalidJson),
      Http(200, EntriesBody(<< [headwords |-> <<Headword(Some(word), Absent)>>,
                                frequencies |-> <<FrequencyItem(Some(500), Some("X"))>>] >>)) }

\* No request was made: the word was in the cache.
NoRequest == [kind |-> "none"]

\* The request ended in a transport failure, a status other than 200 or a body
\* that is no JSON or has no 'dictionaryEntries'.
FrequencyRequestFailed(resp) ==
    \/ resp.kind \in {"timeout", "connection_error", "request_exception"}
    \/ /\ resp.kind = "http"
       /\ \/ resp.status # 200
          \/ resp.body.json = "invalid"
          \/ ~resp.body.has_entries

\* The body of the loop: the frequency lookup (from the cache, or by a request)
\* and the entry of the word.
LookupCall ==
    /\ run_pc = "lookup_call"
    /\ LET word == run.unique[run.processed]
           cached == CacheHit(frequency_cache, word)
       IN  \E resp \in IF cached THEN {NoRequest} ELSE RunFrequencyOutcomes(word) :
              LET freq_data == IF cached THEN CachedResult(frequency_cache, word)
                               ELSE LookupResult(word, resp)
              IN  /\ frequency_cache' =
                        IF cached THEN frequency_cache
                        ELSE CacheAfter(frequency_cache, word, freq_data)
                  /\ run' = [run EXCEPT
                        !.entries =
                            Append(run.entries,
                                   WordEntry(word, WordCount(run.words, word), freq_data,
                                             vocabulary_set, ignored_words)),
                        !.freq_log =
                            Append(run.freq_log,
                                   [word |-> word, failed |-> FrequencyRequestFailed(resp)])]
    /\ run_pc' = "lookup"
    /\ UNCHANGED <<progress_tracker, written, tok_log>>
    /\ RunFrameButCache

\* total_processed_words with the ignored occurrences counted in.
TotalWithIgnored(known_word_count, unknown_word_count, ignored_word_count) ==
    known_word_count + unknown_word_count + ignored_word_count

\* total_processed_words (line 1240): the ignored occurrences are left out.
TotalProcessedWords(known_word_count, unknown_word_count, ignored_word_count) ==
    known_word_count + unknown_word_count

\* comprehension_rate (line 1243), kept as the exact fraction num / den that
\* the float expression known / total * 100 approximates.
ComprehensionRate(known_word_count, total_processed_words) ==
    IF total_processed_words > 0
    THEN [num |-> known_word_count * 100, den |-> total_processed_words]
    ELSE [num |-> 0, den |-> 1]

\* comprehension_rate >= bound
RateAtLeast(rate, bound) == rate.num >= bound * rate.den

\* calculate_difficulty_level with the lower boundary of each band excluded.
DifficultyLevelExclusive(comprehension_rate) ==
    IF ~RateAtLeast(comprehension_rate, 95) THEN
        IF ~RateAtLeast(comprehension_rate, 85) THEN
            IF ~RateAtLeast(comprehension_rate, 75) THEN
                IF ~RateAtLeast(comprehension_rate, 65) THEN "5<star> Expert"
                ELSE IF comprehension_rate.num = 65 * comprehension_rate.den
                     THEN "5<star> Expert" ELSE "4<star> Advanced"
            ELSE IF comprehension_rate.num = 75 * comprehension_rate.den
                 THEN "4<star> Advanced" ELSE "3<star> Intermediate"
        ELSE IF comprehension_rate.num = 85 * comprehension_rate.den
             THEN "3<star> Intermediate" ELSE "2<star> Elementary"
    ELSE IF comprehension_rate.num = 95 * comprehension_rate.den
         THEN "2<star> Elementary" ELSE "1<star> Beginner"

\* calculate_difficulty_level (lines 1258-1268).  "<star>" stands for the
\* character U+2605 of the labels.
CalculateDifficultyLevel(comprehension_rate) ==
    IF RateAtLeast(comprehension_rate, 95) THEN "1<star> Beginner"
    ELSE IF RateAtLeast(comprehension_rate, 85) THEN "2<star> Elementary"
    ELSE IF RateAtLeast(comprehension_rate, 75) THEN "3<star> Intermediate"
    ELSE IF RateAtLeast(comprehension_rate, 65) THEN "4<star> Advanced"
    ELSE "5<star> Expert"

\* star_from_rank_filter (lines 46-61); the rank is absent for None.
StarFromRankFilter(rank) ==
    IF rank = Absent THEN 0
    ELSE IF TheValue(rank) <= 1500 THEN 5
    ELSE IF TheValue(rank) <= 5000 THEN 4
    ELSE IF TheValue(rank) <= 15000 THEN 3
    ELSE IF TheValue(rank) <= 30000 THEN 2
    ELSE IF TheValue(rank) <= 60000 THEN 1
    ELSE 0

\* get_star_rating_from_rank with every boundary put into the lower bucket.
StarRatingBoundaryBelow(rank) ==
    IF rank = Absent THEN 0
    ELSE IF TheValue(rank) < 1500 THEN 5
    ELSE IF TheValue(rank) < 5000 THEN 4
    ELSE IF TheValue(rank) < 15000 THEN 3
    ELSE IF TheValue(rank) < 30000 THEN 2
    ELSE IF TheValue(rank) < 60000 THEN 1
    ELSE 0

\* get_star_rating_from_rank (lines 522-537)
GetStarRatingFromRank(rank) ==
    IF rank = Absent THEN 0
    ELSE IF TheValue(rank) <= 1500 THEN 5
    ELSE IF TheValue(rank) <= 5000 THEN 4
    ELSE IF TheValue(rank) <= 15000 THEN 3
    ELSE IF TheValue(rank) <= 30000 THEN 2
    ELSE IF TheValue(rank) <= 60000 THEN 1
    ELSE 0

Stars == 0..5

\* The star_counts of one category after the loop of lines 550-557 when the loop
\* counts occurrences instead of words.
StarCountsByOccurrence(word_list) ==
    [star \in Stars |->
        SumCounts(SelectSeq(word_list, LAMBDA e : GetStarRatingFromRank(e.rank) = star))]

\* The star_counts of one category after the loop of lines 550-557: one per
\* entry of the list.
StarCounts(word_list) ==
    [star \in Stars |->
        Cardinality({k \in 1..Len(word_list) :
                        GetStarRatingFromRank(word_list[k].rank) = star})]

\* sum(data['star_counts'].values())
RECURSIVE SumUpTo(_, _)
SumUpTo(star_counts, star) ==
    IF star < 0 THEN 0 ELSE star_counts[star] + SumUpTo(star_counts, star - 1)

\* total_score of one category: stars * count added up over the list.
RECURSIVE TotalScore(_)
TotalScore(word_list) ==
    IF word_list = <<>> THEN 0
    ELSE GetStarRatingFromRank(Head(word_list).rank) * Head(word_list).count
         + TotalScore(Tail(word_list))

\* result['categories'][name] (lines 571-576).  average_rating, the quotient
\* total_score / total_instances as a float rounded to two decimals, is kept
\* as its two terms.
CategoryStatistics(word_list) ==
    [star_counts |-> StarCounts(word_list),
     unique_words |-> SumUpTo(StarCounts(word_list), 5),
     total_instances |-> SumCounts(word_list),
     total_score |-> TotalScore(word_list)]

\* calculate_three_category_frequency_statistics (lines 510-594); the labels
\* and colours of star_breakdown are left out.
CalculateThreeCategoryFrequencyStatistics(known_words, ignored_words_list, unknown_words) ==
    LET categories == [known |-> CategoryStatistics(known_words),
                       ignored |-> CategoryStatistics(ignored_words_list),
                       unknown |-> CategoryStatistics(unknown_words)]
        combined == [star \in Stars |->
                        categories.known.star_counts[star]
                        + categories.ignored.star_counts[star]
                        + categories.unknown.star_counts[star]]
    IN  [categories |-> categories,
         combined_star_distribution |-> combined,
         total_unique_words |-> categories.known.unique_words
                                + categories.ignored.unique_words
                                + categories.unknown.unique_words,
         total_word_instances |-> categories.known.total_instances
                                  + categories.ignored.total_instances
                                  + categories.unknown.total_instances,
         star_breakdown |-> [star \in Stars |-> [count |-> combined[star]]]]

InCategory(entries, category) == SelectSeq(entries, LAMBDA e : Category(e) = category)

\* The lists and counts of the result (lines 1225-1243, 1272-1282).
AnalysisOf(words, unique, entries) ==
    LET all == SortByCount(DeduplicateWordList(entries))
        known == SortByCount(DeduplicateWordList(InCategory(entries, "known")))
        unknown == SortByCount(DeduplicateWordList(InCategory(entries, "unknown")))
        ignored == SortByCount(InCategory(entries, "ignored"))
        total == TotalProcessedWords(SumCounts(known), SumCounts(unknown),
                                     SumCounts(ignored))
        rate == ComprehensionRate(SumCounts(known), total)
    IN  [total_words |-> Len(words),
         unique_words |-> Len(unique),
         all_words_analyzed |-> all,
         known_words |-> known,
         unknown_words |-> unknown,
         ignored_words |-> ignored,
         known_word_count |-> SumCounts(known),
         unknown_word_count |-> SumCounts(unknown),
         ignored_word_count |-> SumCounts(ignored),
         total_processed_words |-> total,
         comprehension_rate |-> rate,
         difficulty_level |-> CalculateDifficultyLevel(rate),
         star_statistics |->
            CalculateThreeCategoryFrequencyStatistics(known, ignored, unknown)]

\* After the loop: the lists are merged and sorted, the counts are summed, and
\* 'complete' is written with progress 100; the result is returned.
Summarize ==
    /\ run_pc = "summarize"
    /\ run' = [run EXCEPT !.analysis = Some(AnalysisOf(run.words, run.unique, run.entries))]
    /\ WriteProgress(Entry("complete", 100))
    /\ run_pc' = "save"
    /\ UNCHANGED tok_log
    /\ RunFrame

\* run_analysis after the analysis: save_scan_result (an exception of it is
\* swallowed), then the entry with the results.
RunFinish ==
    /\ run_pc = "save"
    /\ \E saved \in BOOLEAN : run' = [run EXCEPT !.saved = saved]
    /\ WriteProgress(EntryWithResults("complete", 100))
    /\ run_pc' = "done"
    /\ UNCHANGED tok_log
    /\ RunFrame

RunThread ==
    \/ RunStart \/ RunLoadInputs \/ AnalyzeStart \/ TokenizeText \/ YomitanEnter
    \/ SingleChunk \/ ChunkBegin \/ ChunkCall \/ ChunksDone \/ AfterYomitan
    \/ FilterTokens \/ Analyzing \/ LookupBegin \/ LookupCall \/ Summarize
    \/ RunFinish

\* The run has stored its results.
RunCompleted == run_pc = "done" /\ run.analysis # Absent

-----------------------------------------------------------------------------
(* analysis_progress_sse and analysis_results *)

SseFrame ==
    UNCHANGED <<chunkVars, tokVars, freqVars, inputVars, written, run_pc, run, tok_log, extVars>>

\* generate() begins: an entry is created when there is none.
SseInit ==
    /\ sse_pc = "idle"
    /\ progress_tracker' =
          IF progress_tracker = Absent THEN Some(Entry("starting", 0))
          ELSE progress_tracker
    /\ sse_pc' = "check"
    /\ sse_polled_after_final' = RunCompleted
    /\ UNCHANGED <<sse_progress, sse_seen_final>>
    /\ SseFrame

\* `while progress_id in progress_tracker`: the stream ends when there is no
\* entry.
SseCheck ==
    /\ sse_pc = "check"
    /\ sse_pc' = IF progress_tracker # Absent THEN "read" ELSE "ended"
    /\ sse_polled_after_final' = (sse_polled_after_final \/ RunCompleted)
    /\ UNCHANGED <<progress_tracker, sse_progress, sse_seen_final>>
    /\ SseFrame

\* The body of the loop: the entry is read (a KeyError ends the stream when it
\* was deleted since the test) and sent; after 'complete' or 'error' the loop
\* is left, otherwise it goes on.
SseRead ==
    /\ sse_pc = "read"
    /\ IF progress_tracker = Absent
       THEN /\ sse_pc' = "ended"
            /\ UNCHANGED <<sse_progress, sse_seen_final>>
       ELSE /\ sse_progress' = progress_tracker
            /\ sse_seen_final' = (sse_seen_final \/ TheValue(progress_tracker).results)
            /\ sse_pc' = IF TheValue(progress_tracker).stage \in {"complete", "error"}
                         THEN "ended" ELSE "check"
    /\ sse_polled_after_final' = (sse_polled_after_final \/ RunCompleted)
    /\ UNCHANGED progress_tracker
    /\ SseFrame

\* analysis_results with the progress_id: the results are taken from the entry
\* and the entry is deleted.
ResultsFetch ==
    /\ progress_tracker # Absent
    /\ TheValue(progress_tracker).results
    /\ progress_tracker' = Absent
    /\ UNCHANGED <<sse_pc, sse_progress, sse_seen_final, sse_polled_after_final>>
    /\ SseFrame

-----------------------------------------------------------------------------
(* analyze_text_vocabulary as a function of the tokens, the vocabulary set, the
   ignore set and the answers of the frequency lookup *)

\* The entries built by the loop over the unique words, in order (lines
\* 1165-1194).
EntriesOf(words, vocabulary, ignored, freq) ==
    LET unique == UniqueWords(words)
    IN  [k \in 1..Len(unique) |->
            WordEntry(unique[k], WordCount(words, unique[k]), freq[unique[k]],
                      vocabulary, ignored)]

AnalyzeTextVocabulary(words, vocabulary, ignored, freq) ==
    AnalysisOf(words, UniqueWords(words), EntriesOf(words, vocabulary, ignored, freq))

MaxAnalyzeLen == 3
AnalyzeWords == {<<"K">>, <<"A", "i">>, <<"a">>}
FreqChoices == {NotFound, Found(1500, "X"), Found(30001, "Y")}
IgnoreChoices == SUBSET {<<"K">>, <<"a">>}

AnalyzeIdle ==
    /\ an_words = <<>>
    /\ an_vocabulary = {}
    /\ an_ignored = {}
    /\ an_freq = [w \in AnalyzeWords |-> NotFound]
    /\ an_result = Absent

AnalyzeInit ==
    /\ an_words \in SeqsUpTo(AnalyzeWords, MaxAnalyzeLen)
    /\ an_vocabulary \in SUBSET AnalyzeWords
    /\ an_ignored \in IgnoreChoices
    /\ an_freq \in [AnalyzeWords -> FreqChoices]
    /\ an_result = Absent

AnalyzeCall ==
    /\ an_result = Absent
    /\ an_result' = Some(AnalyzeTextVocabulary(an_words, an_vocabulary, an_ignored, an_freq))
    /\ UNCHANGED <<an_words, an_vocabulary, an_ignored, an_freq>>
    /\ UNCHANGED NotAn

-----------------------------------------------------------------------------
(* deduplicate_word_list on any list of entries *)

MaxDedupLen == 3

\* The entries the lists are made of: two words, two counts, with and without
\* a rank, in and out of the vocabulary.
DedupEntries ==
    {WordEntry(word, count, freq_data, vocabulary, {}) :
        word \in {<<"K">>, <<"a">>}, count \in {1, 2},
        freq_data \in {NotFound, Found(1500, "X")}, vocabulary \in {{}, {<<"K">>}}}

DedupIdle ==
    /\ dd_list = <<>>
    /\ dd_out = Absent

DedupInit ==
    /\ dd_list \in SeqsUpTo(DedupEntries, MaxDedupLen)
    /\ dd_out = Absent

DedupCall ==
    /\ dd_out = Absent
    /\ dd_out' = Some(DeduplicateWordList(dd_list))
    /\ UNCHANGED dd_list
    /\ UNCHANGED NotDd

-----------------------------------------------------------------------------
(* The comprehension rate and the difficulty level as functions of the three
   occurrence counts (lines 1236-1270), and the two rank-to-star functions *)

MaxOccurrences == 80
IgnoredOccurrences == {0, 100}

RateIdle ==
    /\ rate_known = 0
    /\ rate_unknown = 0
    /\ rate_ignored = 0
    /\ rate_out = Absent

RateInit ==
    /\ rate_known \in 0..MaxOccurrences
    /\ rate_unknown \in 0..MaxOccurrences
    /\ rate_ignored \in IgnoredOccurrences
    /\ rate_out = Absent

RateCall ==
    /\ rate_out = Absent
    /\ LET total == TotalProcessedWords(rate_known, rate_unknown, rate_ignored)
           rate == ComprehensionRate(rate_known, total)
       IN  rate_out' = Some([comprehension_rate |-> rate,
                             difficulty_level |-> CalculateDifficultyLevel(rate)])
    /\ UNCHANGED <<rate_known, rate_unknown, rate_ignored>>
    /\ UNCHANGED NotRate

MaxRank == 60002

StarIdle ==
    /\ star_rank = Absent
    /\ star_out = Absent

StarInit ==
    /\ star_rank \in {Absent} \cup {Some(r) : r \in 0..MaxRank}
    /\ star_out = Absent

StarCall ==
    /\ star_out = Absent
    /\ star_out' = Some([rating |-> GetStarRatingFromRank(star_rank),
                         filter |-> StarFromRankFilter(star_rank)])
    /\ UNCHANGED star_rank
    /\ UNCHANGED NotStar

-----------------------------------------------------------------------------
(* Concurrent calls of get_yomitan_frequency_data.  The threads of the server
   and the analysis threads share frequency_cache without a lock; a thread can
   be suspended between any two statements. *)

Resolvers == {1, 2}

ResolverIdle == [pc |-> "idle", word |-> <<>>, result |-> NotFound]

ResolversIdle == resolvers = [r \in Resolvers |-> ResolverIdle]

\* The answers to the request for one word that a concurrent call draws from:
\* those of RunFrequencyOutcomes and one more with another rank for the word.
ResolveOutcomes(word) ==
    { Timeout, Http(503, NoValue), Http(200, InvalidJson),
      Http(200, EntriesBody(<< [headwords |-> <<Headword(Some(word), Absent)>>,
                                frequencies |-> <<FrequencyItem(Some(500), Some("X"))>>] >>)),
      Http(200, EntriesBody(<< [headwords |-> <<Headword(Some(word), Absent)>>,
                                frequencies |-> <<FrequencyItem(Some(10), Some("Y"))>>] >>)) }

ResolveFrame ==
    UNCHANGED <<chunkVars, tokVars, freqCall, pipeVars, anVars, ddVars, rateVars, starVars,
                moreVars>>

\* Lines 135-148: the cache test; a hit returns the cached record, a miss
\* sends the request.
ResolveCall(r) ==
    /\ resolvers[r].pc \in {"idle", "returned"}
    /\ \E word \in FreqWords :
          resolvers' = [resolvers EXCEPT ![r] =
              IF CacheHit(frequency_cache, word)
              THEN [pc |-> "returned", word |-> word,
                    result |-> CachedResult(frequency_cache, word)]
              ELSE [pc |-> "requesting", word |-> word, result |-> NotFound]]
    /\ UNCHANGED frequency_cache
    /\ ResolveFrame

\* Lines 150-189: the request ends and the response is processed; without a
\* rank the call returns not-found, with one it goes on to the cache, testing
\* `frequency_cache is None` first.
ResolveResponse(r) ==
    /\ resolvers[r].pc = "requesting"
    /\ \E resp \in ResolveOutcomes(resolvers[r].word) :
          LET result == LookupResult(resolvers[r].word, resp)
          IN  resolvers' = [resolvers EXCEPT
                  ![r].result = result,
                  ![r].pc = IF ~result.found THEN "returned"
                            ELSE IF frequency_cache.none THEN "init_cache"
                            ELSE "store"]
    /\ UNCHANGED frequency_cache
    /\ ResolveFrame

\* Line 190: frequency_cache = {}.
ResolveInitCache(r) ==
    /\ resolvers[r].pc = "init_cache"
    /\ frequency_cache' = [none |-> FALSE, items |-> EmptyDict]
    /\ resolvers' = [resolvers EXCEPT ![r].pc = "store"]
    /\ ResolveFrame

\* Lines 192-202: frequency_cache[word] = {...}, and the record is returned.
ResolveStore(r) ==
    /\ resolvers[r].pc = "store"
    /\ frequency_cache' = CacheAfter(frequency_cache, resolvers[r].word, resolvers[r].result)
    /\ resolvers' = [resolvers EXCEPT ![r].pc = "returned"]
    /\ ResolveFrame

-----------------------------------------------------------------------------
(* Specifications *)

-----------------------------------------------------------------------------
(* filter_japanese_tokens on every token list up to the bound.  The tokens
   drawn from: empty, blank, punctuation, the single hiragana U+3044, U+3057,
   U+3059 (in important_single) and U+306F (not in it), a katakana, a kanji, a
   latin letter, U+3067 U+3059 (in allowed_short), two hiragana not in it, a
   kanji with one and with three punctuation marks. *)

MaxFilterLen == 3
FilterWords ==
    { <<>>, <<" ">>, <<".">>, <<"i">>, <<"s">>, <<"u">>, <<"h">>, <<"T">>, <<"K">>,
      <<"a">>, <<"d", "u">>, <<"i", "i">>, <<"K", ".">>, <<"K", ".", ".", ".">> }

FilterIdle ==
    /\ flt_words = <<>>
    /\ flt_out = Absent

FilterInit ==
    /\ flt_words \in SeqsUpTo(FilterWords, MaxFilterLen)
    /\ flt_out = Absent

FilterCall ==
    /\ flt_out = Absent
    /\ flt_out' = Some([once |-> FilterJapaneseTokens(flt_words),
                        twice |-> FilterJapaneseTokens(FilterJapaneseTokens(flt_words))])
    /\ UNCHANGED flt_words
    /\ UNCHANGED NotFlt

-----------------------------------------------------------------------------
(* Concurrent calls of _tokenize_single_chunk.  Every analysis run has its own
   thread and the threads share active_yomitan_operations without a lock; the
   statements of lines 916 and 974 each read the global and then store it, and
   a thread can be suspended between the two.  The health check reads it. *)

Callers == {1, 2}
MaxCalls == 2

CallerIdle == [pc |-> "idle", seen |-> 0, calls |-> 0]
CallersIdle ==
    /\ callers = [c \in Callers |-> CallerIdle]
    /\ health = Absent

CallFrame == UNCHANGED <<chunkVars, tokCall, freqVars, pipeVars, resolvers, anVars, ddVars,
                         rateVars, starVars, fltVars>>

\* Line 916, the read of `active_yomitan_operations += 1`.
CallerEnter(c) ==
    /\ callers[c].pc \in {"idle", "returned"}
    /\ callers[c].calls < MaxCalls
    /\ callers' = [callers EXCEPT ![c] = [pc |-> "incrementing",
                                          seen |-> active_yomitan_operations,
                                          calls |-> @.calls + 1]]
    /\ UNCHANGED <<active_yomitan_operations, health>>
    /\ CallFrame

\* Line 916, the store; the request of line 925 is sent.
CallerIncrement(c) ==
    /\ callers[c].pc = "incrementing"
    /\ active_yomitan_operations' = callers[c].seen + 1
    /\ callers' = [callers EXCEPT ![c].pc = "requesting"]
    /\ UNCHANGED health
    /\ CallFrame

\* The request ends, in whatever way; the finally clause begins with the read
\* of line 974.
CallerResponse(c) ==
    /\ callers[c].pc = "requesting"
    /\ callers' = [callers EXCEPT ![c].pc = "decrementing",
                                  ![c].seen = active_yomitan_operations]
    /\ UNCHANGED <<active_yomitan_operations, health>>
    /\ CallFrame

\* Line 974, the store of max(0, active_yomitan_operations - 1); the call returns.
CallerDecrement(c) ==
    /\ callers[c].pc = "decrementing"
    /\ active_yomitan_operations' =
          (IF callers[c].seen - 1 > 0 THEN callers[c].seen - 1 ELSE 0)
    /\ callers' = [callers EXCEPT ![c].pc = "returned"]
    /\ UNCHANGED health
    /\ CallFrame

\* check_yomitan_health, lines 657-660: base_timeout from the counter.
HealthCheck ==
    /\ health' = Some(IF active_yomitan_operations > 0 THEN 5 ELSE 3)
    /\ UNCHANGED <<active_yomitan_operations, callers>>
    /\ CallFrame

MoreIdle == CallersIdle /\ FilterIdle

\* The components added after the analysis run, idle.
ExtIdle == ResolversIdle /\ AnalyzeIdle /\ DedupIdle /\ RateIdle /\ StarIdle /\ MoreIdle

InitChunk == ChunkInit /\ TokIdle /\ FreqIdle /\ PipeIdle /\ ExtIdle
SpecChunk == InitChunk /\ [][SplitCall]_vars

\* _split_text_into_chunks with windows longer than the search tail: texts of
\* filler characters with up to two marks (break characters of the three
\* classes) placed at the start of the window, on both sides of the place where
\* the tail begins, at the end of the window and just past it.
MaxCutHead == 2
MaxCutExtra == 3
CutSizes == (SearchTail + 1)..(SearchTail + MaxCutHead)
CutMarks == {"K", ".", "]", ",", " ", "n"}
CutPositions(size) ==
    {0, size - SearchTail - 1, size - SearchTail, size - SearchTail + 1, size - 1, size}
MarkedText(len, p1, c1, p2, c2) ==
    [k \in 1..len |-> IF k - 1 = p1 THEN c1 ELSE IF k - 1 = p2 THEN c2 ELSE "K"]

CutInit ==
    /\ split_size \in CutSizes
    /\ \E extra \in 1..MaxCutExtra :
       \E p1 \in CutPositions(split_size), p2 \in CutPositions(split_size) :
       \E c1 \in CutMarks, c2 \in CutMarks :
          split_text = MarkedText(split_size + extra, p1, c1, p2, c2)
    /\ split_chunks = NoValue

InitCut == CutInit /\ TokIdle /\ FreqIdle /\ PipeIdle /\ ExtIdle
SpecCut == InitCut /\ [][SplitCall]_vars

InitTok == TokInit /\ ChunkIdle /\ FreqIdle /\ PipeIdle /\ ExtIdle
TokNext == TokRequest \/ TokReturn
SpecTok == InitTok /\ [][TokNext]_vars

InitFreq == FreqIdle /\ ChunkIdle /\ TokIdle /\ PipeIdle /\ ExtIdle
FreqNext == LoadFrequencyData \/ FreqCallCached \/ FreqCallRequest \/ FreqReturn
SpecFreq == InitFreq /\ [][FreqNext]_vars

\* One analysis run, the progress stream and the results route.
Init == PipeInit /\ ChunkIdle /\ TokIdle /\ FreqIdle /\ ExtIdle
Next ==
    \/ ExecuteNoParams \/ ExecuteAnalysis \/ RunThread
    \/ SseInit \/ SseCheck \/ SseRead \/ ResultsFetch
Spec == Init /\ [][Next]_vars

\* The thread has been started and has not ended: exactly then one of the
\* steps of RunThread can be taken, and every such step changes run_pc or run.
RunThreadEnabled == run_pc \notin {"idle", "rejected", "done", "crashed"}

\* The thread of a started run is scheduled and every request it makes ends
\* (each carries a timeout), so the thread keeps taking steps.  This is
\* WF_vars(RunThread) with ENABLED <<RunThread>>_vars written as the state
\* predicate it is equal to.
FairSpec == Spec /\ ([]<>(~RunThreadEnabled) \/ []<><<RunThread>>_vars)

\* Two threads resolving words at the same time.
CoreIdle == FreqIdle /\ ChunkIdle /\ TokIdle /\ PipeIdle
InitCache == ResolversIdle /\ AnalyzeIdle /\ DedupIdle /\ RateIdle /\ StarIdle /\ CoreIdle /\ MoreIdle
CacheNext ==
    \E r \in Resolvers :
        ResolveCall(r) \/ ResolveResponse(r) \/ ResolveInitCache(r) \/ ResolveStore(r)
SpecCache == InitCache /\ [][CacheNext]_vars

\* analyze_text_vocabulary on every input up to the bounds.
InitAnalyze == AnalyzeInit /\ ResolversIdle /\ DedupIdle /\ RateIdle /\ StarIdle /\ CoreIdle /\ MoreIdle
SpecAnalyze == InitAnalyze /\ [][AnalyzeCall]_vars

\* deduplicate_word_list on every list up to the bound.
InitDedup == DedupInit /\ AnalyzeIdle /\ ResolversIdle /\ RateIdle /\ StarIdle /\ CoreIdle /\ MoreIdle
SpecDedup == InitDedup /\ [][DedupCall]_vars

\* The rate and the level on every pair of counts up to the bound.
InitRate == RateInit /\ StarIdle /\ DedupIdle /\ AnalyzeIdle /\ ResolversIdle /\ CoreIdle /\ MoreIdle
SpecRate == InitRate /\ [][RateCall]_vars

\* The star functions on every rank up to the bound, and on None.
InitStar == StarInit /\ RateIdle /\ DedupIdle /\ AnalyzeIdle /\ ResolversIdle /\ CoreIdle /\ MoreIdle
SpecStar == InitStar /\ [][StarCall]_vars

\* filter_japanese_tokens on every token list up to the bound.
InitFilter == FilterInit /\ CallersIdle /\ ResolversIdle /\ AnalyzeIdle /\ DedupIdle
              /\ RateIdle /\ StarIdle /\ CoreIdle
SpecFilter == InitFilter /\ [][FilterCall]_vars

\* Two threads tokenizing chunks at the same time, and the health check.
InitCallers == CallersIdle /\ FilterIdle /\ ResolversIdle /\ AnalyzeIdle /\ DedupIdle
               /\ RateIdle /\ StarIdle /\ CoreIdle
CallersNext ==
    \/ \E c \in Callers :
          CallerEnter(c) \/ CallerIncrement(c) \/ CallerResponse(c) \/ CallerDecrement(c)
    \/ HealthCheck
SpecCallers == InitCallers /\ [][CallersNext]_vars

-----------------------------------------------------------------------------
(* Claims *)

\* C1: for every text and every chunk_size >= 1 the chunks returned by
\* _split_text_into_chunks concatenate, in order, to the input text, and every
\* chunk has length <= chunk_size.
C1_ChunkRoundTrip ==
    split_chunks # NoValue =>
        /\ Concat(split_chunks) = split_text
        /\ \A k \in 1..Len(split_chunks) : Len(split_chunks[k]) <= split_size

\* A text cut into several chunks, one of them ended early at a break character.
C1_Witness ==
    /\ split_chunks # NoValue
    /\ Len(split_chunks) >= 2
    /\ \E k \in 1..Len(split_chunks) :
          /\ k < Len(split_chunks)
          /\ Len(split_chunks[k]) < split_size
          /\ split_chunks[k][Len(split_chunks[k])] = "."

\* The request ended without a usable answer.
RequestFailed(resp) ==
    \/ resp.kind \in {"timeout", "connection_error", "request_exception"}
    \/ resp.kind = "http" /\ resp.status # 200
    \/ resp.kind = "http" /\ resp.status = 200 /\ resp.body.json = "invalid"

\* C2 as stated: whenever the request ends in a non-200 status, a timeout, a
\* connection error or a parsing exception, _tokenize_single_chunk returns the
\* fallback's tokens with succeeded = true.
C2_NeverReportsFailure ==
    (tok_pc = "returned" /\ RequestFailed(tok_resp)) =>
        tok_result = [words |-> SimpleJapaneseTokenize(tok_text), success |-> TRUE]

\* C2 amended: a timeout, a connection error, any other request exception or a
\* parsing exception yields the fallback's tokens with succeeded = true; a
\* non-200 status yields no tokens with succeeded = false.
C2_FallbackOnExceptionOnly ==
    tok_pc = "returned" =>
        /\ (tok_resp.kind \in {"timeout", "connection_error", "request_exception"}
            \/ (tok_resp.kind = "http" /\ tok_resp.status = 200
                /\ tok_resp.body.json = "invalid"))
           => tok_result = [words |-> SimpleJapaneseTokenize(tok_text), success |-> TRUE]
        /\ (tok_resp.kind = "http" /\ tok_resp.status # 200)
           => tok_result = [words |-> <<>>, success |-> FALSE]

\* A timeout answered by the fallback, which kept an adjective whole.
C2_Witness ==
    /\ tok_pc = "returned"
    /\ tok_resp.kind = "timeout"
    /\ tok_result.success
    /\ \E k \in 1..Len(tok_result.words) : tok_result.words[k] = <<"A", "i">>

Last(seq) == seq[Len(seq)]

\* Every request of the run so far ended in a connection error or a timeout.
AllUnreachable == \A k \in 1..Len(tok_log) : tok_log[k].unreachable

\* The number of requests a finished tokenization of the run's text has made.
ChunksOf(text) ==
    IF Len(text) = 0 \/ IsBlank(text) THEN 0
    ELSE IF Len(text) <= YOMITAN_CHUNK_SIZE THEN 1
    ELSE Len(SplitTextIntoChunks(text, YOMITAN_CHUNK_SIZE))

StageRank(stage) ==
    CASE stage = "starting" -> 1
      [] stage = "preprocessing" -> 2
      [] stage = "chunking" -> 3
      [] stage = "tokenizing" -> 4
      [] stage = "filtering" -> 5
      [] stage = "vocabulary_lookup" -> 6
      [] stage = "complete" -> 7
      [] OTHER -> 0

\* C4 as stated: among the stages a run writes to its progress entry, none of
\* the seven ordered stages is written after one that comes later in the order,
\* and once 'complete' is written no other stage is written after it.
C4_StagesInOrder ==
    /\ \A j \in 1..Len(written) : \A k \in j..Len(written) :
          (StageRank(written[j].stage) > 0 /\ StageRank(written[k].stage) > 0)
              => StageRank(written[j].stage) <= StageRank(written[k].stage)
    /\ \A j \in 1..Len(written) : \A k \in j..Len(written) :
          written[j].stage = "complete" => written[k].stage = "complete"

\* C5 as stated: no update the run writes to its progress entry, from
\* execute_analysis to the final update, carries a smaller progress value than
\* the update before it.
C5_ProgressNonDecreasing ==
    \A k \in 1..(Len(written) - 1) : written[k].progress <= written[k + 1].progress

\* The service was asked and was unavailable for every chunk, no fallback
\* tokens were produced, and tokenize_japanese_text returned no token.
NoUsableTokens ==
    /\ run.tokens_empty
    /\ Len(tok_log) > 0
    /\ \A k \in 1..Len(tok_log) :
          ~tok_log[k].result.success /\ tok_log[k].result.words = <<>>

\* C6 as stated: a finished run whose tokenization yielded no usable token
\* (service unavailable, no fallback tokens) has 'error' as the last stage of
\* its progress entry, and nothing escaped the run.
C6_NoTokensEndsInError ==
    (run_pc \in {"done", "crashed"} /\ NoUsableTokens) =>
        /\ run_pc = "done"
        /\ Last(written).stage = "error"

\* C7 as stated: a progress stream that has polled the entry after the run
\* stored its results has read the entry with the final 'complete' state by the
\* time the stream ends.
C7_StreamReadsFinalState ==
    (sse_pc = "ended" /\ sse_polled_after_final) => sse_seen_final

RunEnded ==
    /\ run_pc = "done"
    /\ Len(written) > 0
    /\ Last(written).stage \in {"complete", "error"}

\* C8: a started background run always reaches its end, with 'complete' or
\* 'error' as the last stage it wrote to its progress entry, and no exception
\* escapes the thread, whatever the answers of the segmentation and frequency
\* service, the files and the history store are.
C8_RunReachesEndState ==
    /\ [](run_pc # "crashed")
    /\ (run_pc = "run_start") ~> RunEnded

C8_Witness ==
    /\ RunEnded
    /\ run.inputs = "cache_error"
    /\ Last(written) = [stage |-> "error", progress |-> 0]

\* The (rank, source) pairs of the frequency items attached to the entries of a
\* response that have a headword whose term or reading equals the word.
QualifyingRanks(entries, word) ==
    {[rank |-> TheValue(entries[e].frequencies[k].frequency),
      source |-> IF entries[e].frequencies[k].dictionary = Absent THEN "Unknown"
                 ELSE TheValue(entries[e].frequencies[k].dictionary)] :
        <<e, k>> \in
            {p \in (1..Len(entries)) \X (1..3) :
                /\ p[2] <= Len(entries[p[1]].frequencies)
                /\ entries[p[1]].frequencies[p[2]].isdict
                /\ entries[p[1]].frequencies[p[2]].frequency # Absent
                /\ \E h \in 1..Len(entries[p[1]].headwords) :
                      \/ entries[p[1]].headwords[h].term = Some(word)
                      \/ entries[p[1]].headwords[h].reading = Some(word)}}

AnsweredWithEntries ==
    /\ freq_pc = "returned"
    /\ freq_resp # Absent
    /\ TheValue(freq_resp).kind = "http"
    /\ TheValue(freq_resp).status = 200
    /\ TheValue(freq_resp).body.json = "object"
    /\ TheValue(freq_resp).body.has_entries

\* C9: a lookup answered by the service returns the numerically lowest rank
\* among the frequency values of the entries with a headword whose term or
\* reading equals the word, with a dictionary that produced that rank; an entry
\* with no exactly matching headword contributes nothing; with no such value
\* the lookup returns not-found.
C9_LowestRankOfExactMatches ==
    AnsweredWithEntries =>
        LET q == QualifyingRanks(TheValue(freq_resp).body.entries, freq_word)
        IN  IF q = {} THEN freq_result = NotFound
            ELSE /\ freq_result.found
                 /\ \A r \in q : freq_result.rank <= r.rank
                 /\ [rank |-> freq_result.rank, source |-> freq_result.source] \in q

\* The example of the claim: the word's own entry has rank 500 from "X", the
\* entry of a longer headword has rank 10, and the lookup returns 500 from "X".
C9_Witness ==
    /\ AnsweredWithEntries
    /\ freq_word = <<"K">>
    /\ TheValue(freq_resp).body.entries =
          << [headwords |-> <<Headword(Some(<<"K">>), Absent)>>,
              frequencies |-> <<FrequencyItem(Some(500), Some("X"))>>],
             [headwords |-> <<Headword(Some(<<"K", "A">>), Absent)>>,
              frequencies |-> <<FrequencyItem(Some(10), Some("Y"))>>] >>
    /\ freq_result = Found(500, "X")

\* C10: a request is sent only for a word that is not in the cache, and a cached
\* word is answered from the cache; a lookup that returns not-found (no
\* qualifying entry, or a failed request) leaves the cache unchanged; a lookup
\* that finds a rank stores exactly the returned record under the word.
C10_CacheOnlyPositive ==
    [][ /\ (freq_pc' = "requesting" /\ freq_pc # "requesting")
            => ~CacheHit(frequency_cache, freq_word')
        /\ (freq_pc' = "returned" /\ CacheHit(frequency_cache, freq_word'))
            => /\ freq_resp' = Absent
               /\ freq_result' = CachedResult(frequency_cache, freq_word')
               /\ frequency_cache' = frequency_cache
        /\ (freq_pc = "requesting" /\ freq_pc' = "returned" /\ ~freq_result'.found)
            => frequency_cache' = frequency_cache
        /\ (freq_pc = "requesting" /\ freq_pc' = "returned" /\ freq_result'.found)
            => /\ ~frequency_cache'.none
               /\ freq_word \in DOMAIN frequency_cache'.items
               /\ frequency_cache'.items[freq_word] = freq_result'
               /\ \A w \in DOMAIN frequency_cache.items :
                     w # freq_word => /\ w \in DOMAIN frequency_cache'.items
                                      /\ frequency_cache'.items[w] = frequency_cache.items[w]
      ]_vars

\* A word whose earlier lookup returned not-found is looked up again, the
\* service is asked again, and this time the lookup returns found = true.
C10_Witness ==
    /\ freq_pc = "returned"
    /\ freq_word \in freq_missed
    /\ freq_resp # Absent
    /\ freq_result.found

\* C11 as stated: a cached entry is never removed and never changed, whatever
\* the interleaving of the threads resolving words.
C11_CacheEntriesNeverChange ==
    [][\A word \in DOMAIN frequency_cache.items :
          /\ word \in DOMAIN frequency_cache'.items
          /\ frequency_cache'.items[word] = frequency_cache.items[word]]_vars

\* C12: in a run, a frequency request that ends in a transport failure, a
\* status other than 200 or a malformed body makes the lookup return not-found
\* and nothing else: the run does not stop, the failed word gets its entry with
\* has_frequency false and no rank, classified like any other word, and every
\* unique word of a finished analysis has its entry.
C12_LookupFailureIsNotFound ==
    /\ run_pc # "crashed"
    /\ Len(run.freq_log) = Len(run.entries)
    /\ \A k \in 1..Len(run.entries) :
          /\ run.entries[k].word = run.unique[k]
          /\ run.freq_log[k].word = run.unique[k]
          /\ run.freq_log[k].failed =>
                /\ ~run.entries[k].has_frequency
                /\ run.entries[k].rank = Absent
                /\ run.entries[k].in_vocabulary = (run.unique[k] \in vocabulary_set)
                /\ run.entries[k].is_ignored = (run.unique[k] \in ignored_words)
    /\ run.analysis # Absent =>
          /\ Len(run.entries) = Len(run.unique)
          /\ \A k \in 1..Len(run.entries) :
                \E j \in 1..Len(TheValue(run.analysis).all_words_analyzed) :
                    TheValue(run.analysis).all_words_analyzed[j] = run.entries[k]

C12_Witness ==
    /\ run_pc = "done"
    /\ run.analysis # Absent
    /\ Len(run.entries) = 2
    /\ run.freq_log[1].failed
    /\ ~run.entries[1].has_frequency
    /\ run.entries[2].has_frequency

\* The words of the entries of a list.
WordsIn(list) == {list[k].word : k \in 1..Len(list)}

\* C13: in the result of an analysis every unique word is in exactly one of the
\* known, ignored and unknown lists; a word of the ignore set is in ignored
\* also when the vocabulary set has it; a word is in known exactly when the
\* vocabulary set has that very word and the ignore set does not; and the three
\* lists together have unique_words entries.
C13_ExactlyOneCategory ==
    an_result # Absent =>
        LET a == TheValue(an_result)
            known == WordsIn(a.known_words)
            unknown == WordsIn(a.unknown_words)
            ignored == WordsIn(a.ignored_words)
            unique == {an_words[k] : k \in 1..Len(an_words)}
        IN  /\ known \cup unknown \cup ignored = unique
            /\ known \cap unknown = {}
            /\ known \cap ignored = {}
            /\ unknown \cap ignored = {}
            /\ ignored = unique \cap an_ignored
            /\ known = (unique \cap an_vocabulary) \ an_ignored
            /\ a.unique_words = Cardinality(unique)
            /\ Len(a.known_words) + Len(a.unknown_words) + Len(a.ignored_words)
                  = a.unique_words

C13_Witness ==
    /\ an_result # Absent
    /\ <<"K">> \in an_vocabulary \cap an_ignored
    /\ <<"K">> \in WordsIn(TheValue(an_result).ignored_words)
    /\ Len(TheValue(an_result).known_words) = 1
    /\ Len(TheValue(an_result).unknown_words) = 1

\* The sum of the counts of the first n entries of a list that have the word.
RECURSIVE CountOfWordUpTo(_, _, _)
CountOfWordUpTo(list, word, n) ==
    IF n = 0 THEN 0
    ELSE CountOfWordUpTo(list, word, n - 1)
         + (IF list[n].word = word THEN list[n].count ELSE 0)

\* The sum of the counts of the first n entries of a list.
RECURSIVE CountUpTo(_, _)
CountUpTo(list, n) == IF n = 0 THEN 0 ELSE CountUpTo(list, n - 1) + list[n].count

\* The index of the first entry of a list that has the word.
FirstIndexOf(list, word) ==
    CHOOSE k \in 1..Len(list) :
        list[k].word = word /\ \A j \in 1..(k - 1) : list[j].word # word

\* C14: the list deduplicate_word_list returns has the same total count as its
\* input, one entry per distinct word of the input, in the order of first
\* occurrence, each with the total count of the input entries of that word and
\* with the rank, source and classification fields of the first of them.
C14_DedupConservesCounts ==
    dd_out # Absent =>
        LET out == TheValue(dd_out)
        IN  /\ CountUpTo(out, Len(out)) = CountUpTo(dd_list, Len(dd_list))
            /\ WordsIn(out) = WordsIn(dd_list)
            /\ Len(out) = Cardinality(WordsIn(dd_list))
            /\ \A j \in 1..Len(out) :
                  LET first == dd_list[FirstIndexOf(dd_list, out[j].word)]
                  IN  /\ out[j].count = CountOfWordUpTo(dd_list, out[j].word, Len(dd_list))
                      /\ out[j].rank = first.rank
                      /\ out[j].source = first.source
                      /\ out[j].has_frequency = first.has_frequency
                      /\ out[j].in_vocabulary = first.in_vocabulary
                      /\ out[j].is_ignored = first.is_ignored
            /\ \A i \in 1..Len(out) : \A j \in (i + 1)..Len(out) :
                  FirstIndexOf(dd_list, out[i].word) < FirstIndexOf(dd_list, out[j].word)

C14_Witness ==
    /\ dd_out # Absent
    /\ Len(dd_list) = 3
    /\ Len(TheValue(dd_out)) = 2
    /\ dd_list[1].word = dd_list[3].word
    /\ dd_list[1].rank # dd_list[3].rank
    /\ TheValue(dd_out)[1].count = dd_list[1].count + dd_list[3].count
    /\ TheValue(dd_out)[1].rank = dd_list[1].rank

\* The index of the first token of the analysed list that is the word.
FirstSeen(word) ==
    CHOOSE k \in 1..Len(an_words) :
        an_words[k] = word /\ \A j \in 1..(k - 1) : an_words[j] # word

\* A list has one entry per word, each with the number of occurrences of the
\* word among the tokens, by descending count, entries of equal count in the
\* order in which their words are first seen.
DedupedAndSorted(list) ==
    /\ \A k \in 1..Len(list) :
          list[k].count = Cardinality({i \in 1..Len(an_words) : an_words[i] = list[k].word})
    /\ \A i \in 1..Len(list) : \A j \in (i + 1)..Len(list) :
          \/ list[i].count > list[j].count
          \/ /\ list[i].count = list[j].count
             /\ FirstSeen(list[i].word) < FirstSeen(list[j].word)

Occurrences(S) == Cardinality({k \in 1..Len(an_words) : an_words[k] \in S})

SameRate(r1, r2) == r1.num * r2.den = r2.num * r1.den

\* C16: the comprehension_rate of an analysis is known occurrences divided by
\* known plus unknown occurrences, times 100, and 0 when there are neither;
\* the occurrences of ignored words do not enter: the analysis of the same
\* tokens without the ignored ones has the same rate.
C16_RateExcludesIgnored ==
    an_result # Absent =>
        LET a == TheValue(an_result)
            known == Occurrences(an_vocabulary \ an_ignored)
            unknown == Occurrences(AnalyzeWords \ (an_vocabulary \cup an_ignored))
            kept == SelectSeq(an_words, LAMBDA w : w \notin an_ignored)
        IN  /\ a.known_word_count = known
            /\ a.unknown_word_count = unknown
            /\ IF known + unknown = 0
               THEN a.comprehension_rate.num = 0
               ELSE a.comprehension_rate.num * (known + unknown)
                        = known * 100 * a.comprehension_rate.den
            /\ a.comprehension_rate.den > 0
            /\ SameRate(a.comprehension_rate,
                        AnalyzeTextVocabulary(kept, an_vocabulary, an_ignored,
                                              an_freq).comprehension_rate)

C16_Witness ==
    /\ an_result # Absent
    /\ an_words = <<<<"K">>, <<"a">>, <<"A", "i">>>>
    /\ an_vocabulary = {<<"K">>}
    /\ an_ignored = {<<"a">>}
    /\ TheValue(an_result).comprehension_rate = [num |-> 100, den |-> 2]
    /\ TheValue(an_result).ignored_word_count = 1

EightyTwenty == rate_out # Absent /\ rate_known = 80 /\ rate_unknown = 20

\* C17 as stated: with 80 known and 20 unknown occurrences and any number of
\* ignored ones the rate is 80 and the level is "Elementary" (with or without
\* the star prefix the code puts before its labels).
C17_EightyIsElementary ==
    EightyTwenty =>
        /\ TheValue(rate_out).comprehension_rate.num
              = 80 * TheValue(rate_out).comprehension_rate.den
        /\ TheValue(rate_out).difficulty_level \in {"Elementary", "2<star> Elementary"}

\* C17 amended: with 80 known and 20 unknown occurrences and any number of
\* ignored ones the rate is 80 and the level is the label of the band from 75
\* up to 85, "3<star> Intermediate".
C17_EightyIsIntermediate ==
    EightyTwenty =>
        /\ TheValue(rate_out).comprehension_rate.num
              = 80 * TheValue(rate_out).comprehension_rate.den
        /\ TheValue(rate_out).difficulty_level = "3<star> Intermediate"

C17_Witness ==
    /\ EightyTwenty
    /\ rate_ignored = 100
    /\ TheValue(rate_out).difficulty_level = "3<star> Intermediate"

\* The rate of the counts is at least the bound: known / (known + unknown) *
\* 100 >= bound, the rate being 0 when there are no occurrences.
CountsRateAtLeast(bound) ==
    IF rate_known + rate_unknown = 0 THEN 0 >= bound
    ELSE rate_known * 100 >= bound * (rate_known + rate_unknown)

\* C18 as stated: the level is "Beginner" from 95 up, else "Elementary" from 85
\* up, else "Intermediate" from 75 up, else "Advanced" from 65 up, else
\* "Expert".
C18_LevelLabelsAsStated ==
    rate_out # Absent =>
        TheValue(rate_out).difficulty_level =
            IF CountsRateAtLeast(95) THEN "Beginner"
            ELSE IF CountsRateAtLeast(85) THEN "Elementary"
            ELSE IF CountsRateAtLeast(75) THEN "Intermediate"
            ELSE IF CountsRateAtLeast(65) THEN "Advanced"
            ELSE "Expert"

\* C18 amended: the level is "1<star> Beginner" from 95 up, else
\* "2<star> Elementary" from 85 up, else "3<star> Intermediate" from 75 up,
\* else "4<star> Advanced" from 65 up, else "5<star> Expert"; the lower
\* boundary of a band belongs to the band.
C18_LevelBands ==
    rate_out # Absent =>
        TheValue(rate_out).difficulty_level =
            IF CountsRateAtLeast(95) THEN "1<star> Beginner"
            ELSE IF CountsRateAtLeast(85) THEN "2<star> Elementary"
            ELSE IF CountsRateAtLeast(75) THEN "3<star> Intermediate"
            ELSE IF CountsRateAtLeast(65) THEN "4<star> Advanced"
            ELSE "5<star> Expert"

C18_Witness ==
    /\ rate_out # Absent
    /\ rate_known = 17
    /\ rate_unknown = 3
    /\ TheValue(rate_out).difficulty_level = "2<star> Elementary"

\* The star bucket the claim gives for a rank, None being absent.
BucketOf(rank) ==
    IF rank = Absent THEN 0
    ELSE LET r == TheValue(rank)
         IN  CASE r <= 1500 -> 5
               [] 1500 < r /\ r <= 5000 -> 4
               [] 5000 < r /\ r <= 15000 -> 3
               [] 15000 < r /\ r <= 30000 -> 2
               [] 30000 < r /\ r <= 60000 -> 1
               [] r > 60000 -> 0

\* C19: get_star_rating_from_rank and star_from_rank_filter both give 5 for a
\* rank up to 1500, 4 up to 5000, 3 up to 15000, 2 up to 30000, 1 up to 60000,
\* and 0 for a higher rank and for None; so 1500 gives 5, 1501 gives 4, 60000
\* gives 1, 60001 gives 0 and None gives 0.
C19_StarBuckets ==
    star_out # Absent =>
        /\ TheValue(star_out).rating = BucketOf(star_rank)
        /\ TheValue(star_out).filter = BucketOf(star_rank)
        /\ star_rank = Some(1500) => TheValue(star_out).rating = 5
        /\ star_rank = Some(1501) => TheValue(star_out).rating = 4
        /\ star_rank = Some(60000) => TheValue(star_out).rating = 1
        /\ star_rank = Some(60001) => TheValue(star_out).rating = 0
        /\ star_rank = Absent => TheValue(star_out).rating = 0

C19_Witness ==
    /\ star_rank = Some(60000)
    /\ star_out = Some([rating |-> 1, filter |-> 1])

\* The number of entries of a list whose rank falls into a star bucket.
EntriesWithStar(list, star) ==
    Cardinality({k \in 1..Len(list) : BucketOf(list[k].rank) = star})

HistogramTotal(star_counts) ==
    star_counts[0] + star_counts[1] + star_counts[2] + star_counts[3]
    + star_counts[4] + star_counts[5]

\* C20: in the star statistics of an analysis the histogram of each category
\* has, in every bucket, the number of entries (unique words) of the category
\* in that bucket, so that it adds up to the length of the list; the combined
\* histogram is the sum of the three, bucket by bucket; and total_unique_words
\* is the sum of the three lengths.
C20_HistogramsCountUniqueWords ==
    an_result # Absent =>
        LET a == TheValue(an_result)
            st == a.star_statistics
        IN  /\ \A star \in 0..5 :
                  /\ st.categories.known.star_counts[star]
                        = EntriesWithStar(a.known_words, star)
                  /\ st.categories.ignored.star_counts[star]
                        = EntriesWithStar(a.ignored_words, star)
                  /\ st.categories.unknown.star_counts[star]
                        = EntriesWithStar(a.unknown_words, star)
                  /\ st.combined_star_distribution[star]
                        = st.categories.known.star_counts[star]
                          + st.categories.ignored.star_counts[star]
                          + st.categories.unknown.star_counts[star]
            /\ HistogramTotal(st.categories.known.star_counts) = Len(a.known_words)
            /\ HistogramTotal(st.categories.ignored.star_counts) = Len(a.ignored_words)
            /\ HistogramTotal(st.categories.unknown.star_counts) = Len(a.unknown_words)
            /\ st.categories.known.unique_words = Len(a.known_words)
            /\ st.categories.ignored.unique_words = Len(a.ignored_words)
            /\ st.categories.unknown.unique_words = Len(a.unknown_words)
            /\ st.total_unique_words
                  = Len(a.known_words) + Len(a.ignored_words) + Len(a.unknown_words)

C20_Witness ==
    /\ an_result # Absent
    /\ an_words = <<<<"K">>, <<"K">>, <<"a">>>>
    /\ TheValue(an_result).known_words # <<>>
    /\ TheValue(an_result).known_words[1].count = 2
    /\ TheValue(an_result).star_statistics.categories.known.star_counts[5] = 1
    /\ TheValue(an_result).star_statistics.categories.ignored.star_counts[5] = 1
    /\ TheValue(an_result).star_statistics.combined_star_distribution[5] = 2
    /\ TheValue(an_result).star_statistics.total_unique_words = 2

\* The answer has the secondary shape: a 200 whose body is a non-empty flat
\* list of non-empty token arrays and raw strings.
SecondaryShape(resp) ==
    /\ resp.kind = "http"
    /\ resp.status = 200
    /\ resp.body.json = "list"
    /\ Len(resp.body.items) > 0
    /\ \A k \in 1..Len(resp.body.items) :
          \/ resp.body.items[k].type = "str"
          \/ resp.body.items[k].type = "array" /\ Len(resp.body.items[k].elems) > 0

\* C21: when the service answers 200 with the secondary response shape,
\* _tokenize_single_chunk returns one token per element (the first element of
\* a token array, or the string itself) with succeeded = true.
C21_SecondaryShapeAccepted ==
    (tok_pc = "returned" /\ SecondaryShape(tok_resp)) =>
        /\ tok_result.success
        /\ Len(tok_result.words) = Len(tok_resp.body.items)
        /\ \A k \in 1..Len(tok_resp.body.items) :
              tok_result.words[k] =
                 (IF tok_resp.body.items[k].type = "str"
                  THEN tok_resp.body.items[k].str
                  ELSE tok_resp.body.items[k].elems[1])

CharsOf(seq) == {seq[k] : k \in 1..Len(seq)}

\* The 0-based index in the text at which chunk k begins.
RECURSIVE StartOf(_, _)
StartOf(chunks, k) == IF k = 1 THEN 0 ELSE StartOf(chunks, k - 1) + Len(chunks[k - 1])

\* The 1-based positions, within the window that begins at start, of the
\* characters of a class that lie in the window's tail.
TailHits(text, start, size, class) ==
    {p \in 1..size : /\ p > size - SearchTail
                     /\ text[start + p] \in CharsOf(class)}

\* The length a non-final chunk must have: it ends just after a character of
\* the first class that occurs in the tail, or it is the whole window.
CutAsStated(text, start, size, len) ==
    LET s1 == TailHits(text, start, size, SentenceEndings)
        s2 == TailHits(text, start, size, OtherPunctuation)
        s3 == TailHits(text, start, size, Whitespace)
    IN  IF s1 # {} THEN len \in s1
        ELSE IF s2 # {} THEN len \in s2
        ELSE IF s3 # {} THEN len \in s3
        ELSE len = size

\* C23: for a text longer than chunk_size every non-final chunk ends just after
\* a sentence terminator of the last 200 characters of its window if there is
\* one, otherwise just after a secondary punctuation character of that tail,
\* otherwise just after a whitespace character of it, otherwise at exactly
\* chunk_size characters; a boundary before the tail is never used.
C23_CutByPriorityInTail ==
    (split_chunks # NoValue /\ Len(split_text) > split_size) =>
        \A k \in 1..(Len(split_chunks) - 1) :
            CutAsStated(split_text, StartOf(split_chunks, k), split_size,
                        Len(split_chunks[k]))

\* A window with a sentence terminator before its tail and a comma inside it:
\* the chunk ends after the comma.
C23_Witness ==
    /\ split_chunks # NoValue
    /\ split_size > SearchTail
    /\ Len(split_chunks) >= 2
    /\ split_text[1] = "."
    /\ Len(split_chunks[1]) < split_size
    /\ Len(split_chunks[1]) > split_size - SearchTail
    /\ split_chunks[1][Len(split_chunks[1])] = ","

\* The tokens the requests 1..n of the run's log contributed: those of every
\* request that succeeded, in the order of the requests.
RECURSIVE TokensOfRequests(_, _)
TokensOfRequests(log, n) ==
    IF n = 0 THEN <<>>
    ELSE TokensOfRequests(log, n - 1)
         \o (IF log[n].result.success THEN log[n].result.words ELSE <<>>)

\* C24: in a multi-chunk run the chunks are tokenized one at a time in index
\* order, and the list tokenize_with_yomitan_api builds holds the tokens of
\* chunk i before those of chunk i + 1, each chunk's tokens in the order the
\* tokenizer returned them.
C24_TokensInChunkOrder ==
    Len(run.chunks) > 0 =>
        /\ Len(tok_log) = (IF run_pc \in {"chunk_begin", "chunk_call"}
                           THEN run.i - 1 ELSE Len(run.chunks))
        /\ \A k \in 1..Len(tok_log) : tok_log[k].chunk = run.chunks[k]
        /\ run.all_words = TokensOfRequests(tok_log, Len(tok_log))

\* Two chunks, both answered with tokens, and the tokens of the first differ
\* from those of the second.
C24_Witness ==
    /\ run_pc = "after_yomitan"
    /\ Len(run.chunks) = 2
    /\ Len(tok_log) = 2
    /\ tok_log[1].result.words # <<>>
    /\ tok_log[2].result.words # <<>>
    /\ tok_log[1].result.words \o tok_log[2].result.words
          # tok_log[2].result.words \o tok_log[1].result.words

\* Whether sub can be obtained from seq by dropping elements: its elements
\* occur in seq in the same order.
RECURSIVE IsSubsequence(_, _)
IsSubsequence(sub, seq) ==
    IF sub = <<>> THEN TRUE
    ELSE IF seq = <<>> THEN FALSE
    ELSE IF Head(sub) = Head(seq) THEN IsSubsequence(Tail(sub), Tail(seq))
    ELSE IsSubsequence(sub, Tail(seq))

\* C25: the output of filter_japanese_tokens is a subsequence of its input
\* (order kept, nothing added), and filtering the output again changes nothing.
C25_FilterSubsequenceIdempotent ==
    flt_out # Absent =>
        /\ IsSubsequence(TheValue(flt_out).once, flt_words)
        /\ TheValue(flt_out).twice = TheValue(flt_out).once

\* A list of which the filter dropped a token and kept two different ones.
C25_Witness ==
    /\ flt_out # Absent
    /\ Len(flt_words) = 3
    /\ Len(TheValue(flt_out).once) = 2
    /\ TheValue(flt_out).once[1] # TheValue(flt_out).once[2]

\* A call of _tokenize_single_chunk is in flight in thread c: its request has
\* been sent and has not ended.
InFlight(c) == callers[c].pc = "requesting"

\* No thread is inside _tokenize_single_chunk.
NoneInside == \A c \in Callers : callers[c].pc \in {"idle", "returned"}

\* C26: under any interleaving of concurrent calls and health checks,
\* active_yomitan_operations is never negative, is greater than 0 while a call
\* of _tokenize_single_chunk is in flight, and is 0 whenever none is.
C26_CounterTracksCallsInFlight ==
    /\ active_yomitan_operations >= 0
    /\ (\E c \in Callers : InFlight(c)) => active_yomitan_operations > 0
    /\ NoneInside => active_yomitan_operations = 0

\* C27: a length-1 token of the allowlisted single hiragana (important_single)
\* is kept in the output of filter_japanese_tokens.
C27_ImportantSinglesKept ==
    flt_out # Absent =>
        \A k \in 1..Len(flt_words) :
            (Len(flt_words[k]) = 1 /\ flt_words[k][1] \in ImportantSingle) =>
                \E j \in 1..Len(TheValue(flt_out).once) :
                    TheValue(flt_out).once[j] = flt_words[k]

\* C28: an entry with stage 'complete' holds the run's results, so a progress
\* stream that stopped at the first 'complete' it read has read the results
\* entry and the results route finds them.
C28_CompleteHoldsResults ==
    /\ (progress_tracker # Absent /\ TheValue(progress_tracker).stage = "complete")
          => TheValue(progress_tracker).results
    /\ (sse_pc = "ended" /\ sse_progress # Absent
        /\ TheValue(sse_progress).stage = "complete")
          => TheValue(sse_progress).results

\* C29: in every result of analyze_text_vocabulary the known, unknown and
\* ignored occurrences add up to total_words, which is the number of tokens;
\* total_processed_words is the known plus the unknown occurrences; and the
\* counts of all_words_analyzed add up to total_words.
C29_OccurrencesConserved ==
    an_result # Absent =>
        LET r == TheValue(an_result)
        IN  /\ r.total_words = Len(an_words)
            /\ r.known_word_count + r.unknown_word_count + r.ignored_word_count
                  = r.total_words
            /\ r.total_processed_words = r.known_word_count + r.unknown_word_count
            /\ CountUpTo(r.all_words_analyzed, Len(r.all_words_analyzed)) = r.total_words

\* A known word that occurs twice and an ignored word that occurs once.
C29_Witness ==
    /\ an_result # Absent
    /\ TheValue(an_result).known_word_count = 2
    /\ TheValue(an_result).ignored_word_count = 1
    /\ TheValue(an_result).unique_words = 2

\* The text with its whitespace characters removed.
WithoutSpaces(text) == SelectSeq(text, LAMBDA c : c \notin SpaceChars)

\* The call was answered by _simple_japanese_tokenize.
FallbackUsed ==
    /\ tok_pc = "returned"
    /\ \/ tok_resp.kind \in {"timeout", "connection_error", "request_exception"}
       \/ tok_resp.kind = "http" /\ tok_resp.status = 200 /\ tok_resp.body.json = "invalid"

\* C30: _simple_japanese_tokenize terminates (every iteration of its loop
\* moves the index forward, and never past the end of the text), its tokens
\* concatenate to the text without its whitespace, and each token is an entry
\* of the adjective allowlist or a single non-whitespace character.
C30_FallbackLosesNothing ==
    FallbackUsed =>
        /\ \A i \in 0..(Len(tok_text) - 1) :
              /\ TokenizeStep(tok_text, i).i > i
              /\ TokenizeStep(tok_text, i).i <= Len(tok_text)
        /\ Concat(tok_result.words) = WithoutSpaces(tok_text)
        /\ \A k \in 1..Len(tok_result.words) :
              \/ tok_result.words[k] \in CommonIAdjectives
              \/ /\ Len(tok_result.words[k]) = 1
                 /\ tok_result.words[k][1] \notin SpaceChars

\* An adjective followed by a space, tokenized by the fallback after a
\* connection error.
C30_Witness ==
    /\ FallbackUsed
    /\ tok_resp.kind = "connection_error"
    /\ tok_text = <<"A", "i", " ">>
    /\ tok_result.words = << <<"A", "i">> >>
====
